---- MODULE Spec2Model ----
(***************************************************************************)
(* Lead resolution pipeline of seo_leads_to_trello.py: the record merge    *)
(* (normalize_header_block), the website resolution waterfall              *)
(* (resolve_website) and the filter/dedup gate of main with its SeenSet.   *)
(*                                                                         *)
(* Strings are sequences of characters.  A label word ("Company", ...), a  *)
(* scheme word ("http", ...), a host name ("d1") or a word of free text    *)
(* ("x") is one character of the model: the code never looks inside them.  *)
(***************************************************************************)
EXTENDS Integers, Sequences, FiniteSets, TLC

VARIABLES
    \* ---- record merge (one card description and the values merged in) ----
    desc,        \* the card's current description text
    descPrev,    \* the description before the last merge
    desc0,       \* the description before the first merge
    company,     \* Company value written by the merge
    website,     \* Website value written by the merge
    batch,       \* batch marker (empty string: none supplied)
    nmerge,      \* merges applied so far
    \* ---- one process of main after another, sharing the SeenSet store ----
    run,         \* processes started so far
    pc,          \* position of the running process in main ("idle": none runs)
    cfg,         \* the process's configuration (environment variables)
    STATS,       \* the STATS counters
    leads,       \* main's list of accepted leads
    seen,        \* the in-memory SeenSet
    seenFile,    \* the lines of SEEN_FILE, the durable SeenSet store
    robots,      \* cache of _robots_parser_for_base: origin -> allowed
    qidCache,    \* cache of wikidata_website_from_qid: qid -> result
    citiesLeft,  \* cities iter_cities has still to yield
    cands,       \* candidates of the current city not yet examined
    biz,         \* the candidate being examined
    site,        \* the website resolved for it (None: none so far)
    pushIdx,     \* index in leads of the next lead to push
    \* ---- history of the candidate being examined, and of the runs ----
    tried,       \* resolvers invoked for the candidate, with what each gave
    reqs,        \* requests issued for the candidate
    gate,        \* gate checks performed on the candidate, with their verdicts
    page,        \* the homepage fetched for the candidate
    cand0,       \* STATS and the number of leads when the candidate was taken
    processed,   \* candidates taken by this process
    loadOk,      \* load_seen of this process read the store
    acceptedEver,\* registrable domains accepted as leads by any process so far
    \* ---- candidate acquisition (get_osm_candidates), one call ----
    acq,         \* the call in progress: position, loop indices, locals
    \* ---- the Day-0 emailer (trello_email_day0.py), one run ----
    day0,        \* the list's cards, the sent cache, the run's position and locals
    \* ---- overpass_lookup_website_by_name, one call ----
    lookup,      \* the call's arguments, the answer it got, its locals
    \* ---- allowed_by_robots, the checks of one process ----
    rb,          \* the lru_cache and the checks made so far
    \* ---- throttle and the throttled requests of one process ----
    thr,         \* the clock, _LAST_CALL and the requests sent
    \* ---- the push loop of main on the Trello list ----
    board,       \* the list's cards, the loop's position, the writes made
    \* ---- the city loop of main and append_csv, one process ----
    csv          \* the cities left, last_city, the leads with their areas, the rows appended

mergeVars == <<desc, descPrev, desc0, company, website, batch, nmerge>>

runVars == <<run, pc, cfg, STATS, leads, seen, seenFile, robots, qidCache, citiesLeft, cands,
             biz, site, pushIdx, tried, reqs, gate, page, cand0, processed, loadOk,
             acceptedEver>>

\* what an action of main leaves alone
pureVars == <<mergeVars, acq, day0, lookup, rb, thr, board, csv>>

vars == <<mergeVars, runVars, acq, day0, lookup, rb, thr, board, csv>>

\* ------------------------------------------------------------------ bounds
MaxLines  == 3      \* lines of a card description before the first merge
MaxMerges == 2      \* consecutive merges of one record
MaxRuns   == 3      \* processes run one after another on the same store
MaxCities == 2      \* cities iter_cities yields in one process
MaxCands  == 2      \* candidates get_osm_candidates returns in one process
DAILY_LIMIT == 2    \* env DAILY_LIMIT
MaxBoard  == 2      \* cards on the Trello list
MaxEls    == 2      \* elements of an answer to the name lookup
MaxChecks == 3      \* robots checks of one process
MaxCalls  == 3      \* throttled requests of one process
MaxClock  == 24     \* the monotonic clock, in tenths of a second

\* ------------------------------------------------------------- characters
LF == "\n"
CR == "\r"
SP == " "

IsSpace(c) == c \in {SP, LF, CR}

\* ---------------------------------------------------- Python str methods
RECURSIVE LStrip(_)
LStrip(s) == IF s # <<>> /\ IsSpace(Head(s)) THEN LStrip(Tail(s)) ELSE s

RECURSIVE RStrip(_)
RStrip(s) ==
    IF s # <<>> /\ IsSpace(s[Len(s)]) THEN RStrip(SubSeq(s, 1, Len(s) - 1)) ELSE s

Strip(s) == LStrip(RStrip(s))

\* s.rstrip("\n")
RECURSIVE RStripNL(_)
RStripNL(s) ==
    IF s # <<>> /\ s[Len(s)] = LF THEN RStripNL(SubSeq(s, 1, Len(s) - 1)) ELSE s

\* s.replace("\r\n", "\n").replace("\r", "\n"): a "\r" before a "\n" goes, any
\* other "\r" becomes "\n"
NormNewlines(s) ==
    LET t == [i \in 1..Len(s) |->
                 IF s[i] # CR THEN s[i]
                 ELSE IF i < Len(s) /\ s[i + 1] = LF THEN "" ELSE LF]
    IN  SelectSeq(t, LAMBDA c : c # "")

\* s.find(c, i): the first index from i on where s holds c (0: none)
RECURSIVE Find(_, _, _)
Find(s, c, i) ==
    IF i > Len(s) THEN 0 ELSE IF s[i] = c THEN i ELSE Find(s, c, i + 1)

\* s.splitlines() from index i on, of a text whose only line boundary is
\* "\n": a final "\n" ends the last line and opens no empty one
RECURSIVE SplitFrom(_, _)
SplitFrom(s, i) ==
    IF i > Len(s) THEN <<>>
    ELSE LET j == Find(s, LF, i)
         IN  IF j = 0 THEN <<SubSeq(s, i, Len(s))>>
             ELSE <<SubSeq(s, i, j - 1)>> \o SplitFrom(s, j + 1)

SplitLines(s) == SplitFrom(s, 1)

\* "\n".join(lines)
RECURSIVE JoinLines(_)
JoinLines(lines) ==
    IF lines = <<>> THEN <<>>
    ELSE IF Len(lines) = 1 THEN lines[1]
    ELSE lines[1] \o <<LF>> \o JoinLines(Tail(lines))

Range(s) == {s[i] : i \in 1..Len(s)}

\* ------------------------------------------------------- Trello helpers
TARGET_LABELS == <<"Company", "First", "Email", "Hook", "Variant", "Website">>

LabelSet == Range(TARGET_LABELS)

\* LABEL_RE[lab].match(line): ^\s*lab\s*:\s*(.*)$
AfterLabel(lab, line) ==
    LET s == LStrip(line)
    IN  IF s # <<>> /\ Head(s) = lab THEN LStrip(Tail(s)) ELSE <<>>

LabelMatch(lab, line) ==
    LET r == AfterLabel(lab, line) IN r # <<>> /\ Head(r) = ":"

\* m.group(1) of a matching line
Group1(lab, line) == LStrip(Tail(AfterLabel(lab, line)))

\* the label of TARGET_LABELS that matches `line` ("" when none does); a label
\* is one character, so a line matches the pattern of one label at most
FirstLabel(line) ==
    LET s == LStrip(line)
    IN  IF s # <<>> /\ Head(s) \in LabelSet /\ LabelMatch(Head(s), line)
        THEN Head(s) ELSE ""

AnyLabel(line) == FirstLabel(line) # ""

\* the index of the first line from i on that matches `label` (0: none)
RECURSIVE FindLabel(_, _, _)
FindLabel(lines, i, label) ==
    IF i > Len(lines) THEN 0
    ELSE IF LabelMatch(label, lines[i]) THEN i
    ELSE FindLabel(lines, i + 1, label)

\* the label line at position i of `lines` has an empty value and takes the
\* next line as its continuation
TakesNext(lines, i, lab) ==
    /\ Strip(Group1(lab, lines[i])) = <<>>
    /\ i + 1 <= Len(lines)
    /\ Strip(lines[i + 1]) # <<>>
    /\ ~AnyLabel(lines[i + 1])

\* the loop with every blank line continuing the header
RECURSIVE SplitLoopBlankContinues(_, _, _, _, _)
SplitLoopBlankContinues(lines, i, header, seen_labels, started) ==
    IF i > Len(lines) THEN [header |-> header, rest |-> <<>>]
    ELSE LET line == lines[i]
             m_lab == FirstLabel(line)
         IN  IF m_lab # ""
             THEN IF TakesNext(lines, i, m_lab)
                  THEN SplitLoopBlankContinues(lines, i + 2, header \o <<line, lines[i + 1]>>,
                                               seen_labels \cup {m_lab}, TRUE)
                  ELSE SplitLoopBlankContinues(lines, i + 1, header \o <<line>>,
                                               seen_labels \cup {m_lab}, TRUE)
             ELSE IF Strip(line) = <<>>
             THEN SplitLoopBlankContinues(lines, i + 1, header \o <<line>>, seen_labels, started)
             ELSE IF started
             THEN [header |-> header, rest |-> SubSeq(lines, i, Len(lines))]
             ELSE SplitLoopBlankContinues(lines, i + 1, header, seen_labels, started)

\* the while loop of _split_header_rest from index i on
RECURSIVE SplitLoop(_, _, _, _, _)
SplitLoop(lines, i, header, seen_labels, started) ==
    IF i > Len(lines) THEN [header |-> header, rest |-> <<>>]
    ELSE LET line == lines[i]
             m_lab == FirstLabel(line)
         IN  IF m_lab # ""
             THEN IF TakesNext(lines, i, m_lab)
                  THEN SplitLoop(lines, i + 2, header \o <<line, lines[i + 1]>>,
                                 seen_labels \cup {m_lab}, TRUE)
                  ELSE SplitLoop(lines, i + 1, header \o <<line>>,
                                 seen_labels \cup {m_lab}, TRUE)
             ELSE IF Strip(line) = <<>>
             THEN IF "Website" \in seen_labels
                  THEN [header |-> header \o <<line>>,
                        rest   |-> SubSeq(lines, i + 1, Len(lines))]
                  ELSE SplitLoop(lines, i + 1, header \o <<line>>, seen_labels, started)
             ELSE IF started
             THEN [header |-> header, rest |-> SubSeq(lines, i, Len(lines))]
             ELSE SplitLoop(lines, i + 1, header, seen_labels, started)

RECURSIVE SkipBlank(_, _)
SkipBlank(lines, i) ==
    IF i <= Len(lines) /\ Strip(lines[i]) = <<>> THEN SkipBlank(lines, i + 1) ELSE i

split_header_rest(d) ==
    LET lines == SplitLines(NormNewlines(d))
        i     == SkipBlank(lines, 1)
    IN  IF i > Len(lines) \/ ~AnyLabel(lines[i])
        THEN [header |-> <<>>, rest |-> lines]
        ELSE SplitLoop(lines, i, <<>>, {}, FALSE)

\* extract_label_value once the text is split into `lines`
ValueIn(lines, label) ==
    LET i == FindLabel(lines, 1, label)
    IN  IF i = 0 THEN <<>>
        ELSE IF TakesNext(lines, i, label) THEN Strip(lines[i + 1])
        ELSE Strip(Group1(label, lines[i]))

extract_label_value(d, label) == ValueIn(SplitLines(NormNewlines(d)), label)

PreservedLabels == {"First", "Email", "Hook", "Variant"}

NoValues == [lab \in PreservedLabels |-> <<>>]

\* PreserveLoop with the test preserved[lab] == "" dropped: the last value wins
RECURSIVE PreserveLoopLastWins(_, _, _)
PreserveLoopLastWins(header_lines, i, preserved) ==
    IF i > Len(header_lines) THEN preserved
    ELSE LET line == header_lines[i]
             lab  == FirstLabel(line)
         IN  IF lab = "" THEN PreserveLoopLastWins(header_lines, i + 1, preserved)
             ELSE LET takes == TakesNext(header_lines, i, lab)
                      val   == IF takes THEN Strip(header_lines[i + 1])
                               ELSE Strip(Group1(lab, line))
                      kept  == IF lab \in PreservedLabels
                               THEN [preserved EXCEPT ![lab] = val]
                               ELSE preserved
                  IN PreserveLoopLastWins(header_lines,
                                          IF takes THEN i + 2 ELSE i + 1, kept)

\* the while loop of normalize_header_block that collects the preserved values
RECURSIVE PreserveLoop(_, _, _)
PreserveLoop(header_lines, i, preserved) ==
    IF i > Len(header_lines) THEN preserved
    ELSE LET line == header_lines[i]
             lab  == FirstLabel(line)
         IN  IF lab = "" THEN PreserveLoop(header_lines, i + 1, preserved)
             ELSE LET takes == TakesNext(header_lines, i, lab)
                      val   == IF takes THEN Strip(header_lines[i + 1])
                               ELSE Strip(Group1(lab, line))
                      kept  == IF lab \in PreservedLabels /\ preserved[lab] = <<>>
                               THEN [preserved EXCEPT ![lab] = val]
                               ELSE preserved
                  IN PreserveLoop(header_lines, IF takes THEN i + 2 ELSE i + 1, kept)

hard(line) == RStrip(line) \o <<SP, SP>>

LabelLine(lab, val) == hard(<<lab, ":", SP>> \o val)

LeadTag == <<"@lead">>

\* new_header with the First and Email lines emitted in the other order
new_header_swapped(preserved, c, w) ==
    << LabelLine("Company", c),
       LabelLine("Email",   preserved["Email"]),
       LabelLine("First",   preserved["First"]),
       LabelLine("Hook",    preserved["Hook"]),
       LabelLine("Variant", preserved["Variant"]),
       LabelLine("Website", w),
       <<>> >>

new_header(preserved, c, w) ==
    << LabelLine("Company", c),
       LabelLine("First",   preserved["First"]),
       LabelLine("Email",   preserved["Email"]),
       LabelLine("Hook",    preserved["Hook"]),
       LabelLine("Variant", preserved["Variant"]),
       LabelLine("Website", w),
       <<>> >>

\* with_batch without the has_batch test: the marker is appended every time
with_batch_always(rest_lines, b) ==
    IF b = <<>> THEN rest_lines
    ELSE IF rest_lines # <<>> /\ Strip(rest_lines[Len(rest_lines)]) # <<>>
         THEN rest_lines \o <<<<>>, b>>
         ELSE rest_lines \o <<b>>

\* rest_lines after the batch marker step
with_batch(rest_lines, b) ==
    IF b = <<>> THEN rest_lines
    ELSE IF \E k \in 1..Len(rest_lines) : Strip(rest_lines[k]) = b THEN rest_lines
    ELSE IF rest_lines # <<>> /\ Strip(rest_lines[Len(rest_lines)]) # <<>>
         THEN rest_lines \o <<<<>>, b>>
         ELSE rest_lines \o <<b>>

normalize_header_block(d, c, w, b) ==
    LET parts     == split_header_rest(d)
        preserved == PreserveLoop(parts.header, 1, NoValues)
    IN  RStripNL(JoinLines(new_header(preserved, c, w) \o with_batch(parts.rest, b)))
            \o <<LF, LF>> \o LeadTag \o <<LF>>

\* ------------------------------------------------ inputs of the merge
Batch == <<"m friday">>

LineSet ==
    { <<>>,                                  \* empty line
      <<SP>>,                                \* whitespace-only line
      <<"Company", ":", SP, "x">>,           \* Company: x
      <<"First", ":", SP, "y", SP, SP>>,     \* First: y   (hard break)
      <<"First", ":">>,                      \* First:     (empty value)
      <<SP, "Email", SP, ":", "z">>,         \*  Email :z
      <<"Website", ":", SP, "x", CR>>,       \* Website: x  (line ended by CR LF)
      <<"x">>,                               \* free text
      Batch \o <<SP>> }                      \* the batch marker, trailing space

Texts(n) == UNION {[1..k -> LineSet] : k \in 0..n}

\* the lines written out with the line terminator eol
RECURSIVE Terminated(_, _)
Terminated(lines, eol) ==
    IF lines = <<>> THEN <<>> ELSE lines[1] \o eol \o Terminated(Tail(lines), eol)

Companies == { <<>>, <<"c", SP>> }
Websites  == { <<>>, <<"w">> }
Batches   == { <<>>, Batch }

\* ---------------------------------------------------------------------
\* URLs (normalize_url, etld1_from_url)
\* ---------------------------------------------------------------------
\* host names: each stands for a name with a public suffix ("ace-plumbing.co")
Hosts == {"d1", "www.d1", "d2"}

\* the registrable domain tldextract gives for a host name
RegDomain(h) == IF h = "www.d1" THEN "d1" ELSE h

SchemeWords == {"http", "https", "ftp", "mailto"}

\* characters a URL scheme may hold (letters, digits, "+", "-", "."); every
\* word of the model but the digits starts with a letter
SchemeChars == SchemeWords \cup Hosts \cup {"u", "80"}
AlphaFirst  == SchemeWords \cup Hosts \cup {"u"}

\* c in s
Contains(s, c) == Find(s, c, 1) # 0

\* "://" in s
HasSchemeSep(s) ==
    \E i \in 1..(Len(s) - 2) : s[i] = ":" /\ s[i + 1] = "/" /\ s[i + 2] = "/"

\* s.strip("/")
RECURSIVE StripSlashes(_)
StripSlashes(s) ==
    IF s # <<>> /\ Head(s) = "/" THEN StripSlashes(Tail(s))
    ELSE IF s # <<>> /\ s[Len(s)] = "/" THEN StripSlashes(SubSeq(s, 1, Len(s) - 1))
    ELSE s

\* re.match(r"^[^@\s]+@[^@\s]+\.[^@\s]+$", u): one "@", no white space, a
\* dotted name after it
LooksLikeEmail(u) ==
    LET i == Find(u, "@", 1)
    IN  /\ i > 1 /\ i < Len(u)
        /\ Find(u, "@", i + 1) = 0
        /\ \A k \in 1..Len(u) : ~IsSpace(u[k])
        /\ \E k \in (i + 1)..Len(u) : u[k] \in Hosts

\* urllib.parse.urlparse: the scheme and the network location of u
urlparse(u) ==
    LET i      == Find(u, ":", 1)
        scheme == IF /\ i > 1
                     /\ u[1] \in AlphaFirst
                     /\ \A k \in 1..(i - 1) : u[k] \in SchemeChars
                  THEN SubSeq(u, 1, i - 1) ELSE <<>>
        rest   == IF scheme # <<>> THEN SubSeq(u, i + 1, Len(u)) ELSE u
        slash  == Find(rest, "/", 3)
        netloc == IF Len(rest) >= 2 /\ rest[1] = "/" /\ rest[2] = "/"
                  THEN SubSeq(rest, 3, IF slash = 0 THEN Len(rest) ELSE slash - 1)
                  ELSE <<>>
    IN  [scheme |-> scheme, netloc |-> netloc]

\* the index of the last "@" of s (0: none)
RECURSIVE LastAt(_, _)
LastAt(s, i) == IF i = 0 THEN 0 ELSE IF s[i] = "@" THEN i ELSE LastAt(s, i - 1)

\* ParseResult.hostname: the network location without user info and port
hostname(netloc) ==
    LET a     == LastAt(netloc, Len(netloc))
        hp    == SubSeq(netloc, a + 1, Len(netloc))
        colon == Find(hp, ":", 1)
    IN  IF colon = 0 THEN hp ELSE SubSeq(hp, 1, colon - 1)

None == <<>>

normalize_url(u0) ==
    LET u  == Strip(u0)
        p  == urlparse(u)
        u2 == IF p.scheme = <<>> THEN <<"https", ":", "/", "/">> \o StripSlashes(u) ELSE u
        p2 == urlparse(u2)
    IN  IF u0 = <<>> THEN None
        ELSE IF Len(u) >= 2 /\ u[1] = "mailto" /\ u[2] = ":" THEN None
        ELSE IF Contains(u, "@") /\ ~HasSchemeSep(u) /\ LooksLikeEmail(u) THEN None
        ELSE IF p2.scheme \notin {<<"http">>, <<"https">>} THEN None
        ELSE IF p2.netloc = <<>> THEN None
        ELSE IF Contains(p2.netloc, "@") THEN None
        ELSE u2

\* etld1_from_url: the registrable domain of the URL's host ("" when the URL
\* has no host name)
etld1_from_url(u) ==
    LET h == hostname(urlparse(u).netloc)
    IN  IF Len(h) = 1 /\ h[1] \in Hosts THEN RegDomain(h[1]) ELSE ""

\* ---------------------------------------------------------------------
\* Website resolution waterfall (resolve_website and its resolvers)
\* ---------------------------------------------------------------------
\* A resolver gives [w |-> URL or None, reqs |-> the requests it issued].

\* the first item of `items` that normalize_url accepts (None: no item)
RECURSIVE FirstValid(_)
FirstValid(items) ==
    IF items = <<>> THEN None
    ELSE IF normalize_url(Head(items)) # None THEN normalize_url(Head(items))
    ELSE FirstValid(Tail(items))

\* wikidata_website_from_qid: resp.items are the P856 values of the entity
wikidata_website_from_qid(qid, resp) ==
    IF qid \notin {"Q1"} THEN [w |-> None, reqs |-> <<>>]
    ELSE IF ~resp.ok THEN [w |-> None, reqs |-> <<"wikidata">>]
    ELSE [w |-> FirstValid(resp.items), reqs |-> <<"wikidata">>]

\* nominatim_lookup_website: resp.items are the website tags of the places
nominatim_lookup_website(name, resp) ==
    IF name = <<>> THEN [w |-> None, reqs |-> <<>>]
    ELSE IF ~resp.ok THEN [w |-> None, reqs |-> <<"nominatim">>]
    ELSE [w |-> FirstValid(resp.items), reqs |-> <<"nominatim">>]

\* ---- names
Max(a, b) == IF a >= b THEN a ELSE b

\* str.lower on the words of the model
LowerTok(t) ==
    CASE t \in {"Ace", "ACE"} -> "ace"
      [] t = "Bee"      -> "bee"
      [] t = "Best"     -> "best"
      [] t = "Cee"      -> "cee"
      [] t = "Dee"      -> "dee"
      [] t = "Gr"       -> "gr"
      [] t = "Ltd"      -> "ltd"
      [] t = "Plumbing" -> "plumbing"
      [] OTHER          -> t

Lower(s) == [i \in 1..Len(s) |-> LowerTok(s[i])]

\* s.split(): the words of s, split at whitespace
RECURSIVE Words(_)
Words(s) ==
    LET t == LStrip(s)
    IN  IF t = <<>> THEN <<>>
        ELSE LET sp == { i \in 1..Len(t) : IsSpace(t[i]) }
                 j  == IF sp = {} THEN Len(t) + 1 ELSE CHOOSE i \in sp : \A k \in sp : i <= k
             IN  <<SubSeq(t, 1, j - 1)>> \o Words(SubSeq(t, j, Len(t)))

\* " ".join(parts)
RECURSIVE JoinSP(_)
JoinSP(parts) ==
    IF parts = <<>> THEN <<>>
    ELSE IF Len(parts) = 1 THEN parts[1]
    ELSE parts[1] \o <<SP>> \o JoinSP(Tail(parts))

LEGAL_SUFFIXES ==
    {"ag", "gmbh", "sa", "sarl", "llc", "ltd", "limited", "inc", "corp", "s.p.a", "spa", "bv",
     "nv", "kg", "ohg", "ug", "gbr", "kft", "sro", "s.r.o", "oy", "ab", "as", "aps"}

\* characters _norm_name turns into a space; its character class holds the
\* range from backslash to underscore where a hyphen was meant, so "]", "^"
\* and "_" are among them and "-" is not
NamePunct == {"'", ".", ",", ":", ";", "(", ")", "]", "^", "_", "/"}

norm_name(s) ==
    LET l == Lower(Strip(s))
        p == [i \in 1..Len(l) |-> IF l[i] \in NamePunct THEN SP ELSE l[i]]
    IN  JoinSP(SelectSeq(Words(p), LAMBDA w : ~(Len(w) = 1 /\ w[1] \in LEGAL_SUFFIXES)))

\* a in b, for strings
IsSubstring(a, b) == \E i \in 0..(Len(b) - Len(a)) : SubSeq(b, i + 1, i + Len(a)) = a

\* _haversine_km when a coordinate is missing, in tenths of a kilometre
NoDist == 9999990

\* the score overpass_lookup_website_by_name gives element el for the
\* normalised name n, in tenths of a point; el.dist is _haversine_km in tenths
\* of a kilometre
Score(n, el) ==
    LET nm_norm == norm_name(Strip(el.name))
        wn      == Words(n)
        wm      == Words(nm_norm)
        overlap == Cardinality({wn[k] : k \in 1..Len(wn)} \cap {wm[k] : k \in 1..Len(wm)})
    IN  (IF nm_norm = n THEN 500
         ELSE IF n # <<>> /\ IsSubstring(n, nm_norm) THEN 300
         ELSE overlap * 60)
        + Max(0, 200 - el.dist)
        + (IF etld1_from_url(normalize_url(el.w)) # "" THEN 50 ELSE 0)

\* the loop with the later of two equal scores taken
RECURSIVE BestLoopTiesLast(_, _, _, _, _)
BestLoopTiesLast(n, els, i, best, best_score) ==
    IF i > Len(els) THEN best
    ELSE LET el    == els[i]
             score == Score(n, el)
         IN  IF el.w = <<>> THEN BestLoopTiesLast(n, els, i + 1, best, best_score)
             ELSE IF score >= best_score THEN BestLoopTiesLast(n, els, i + 1, el.w, score)
             ELSE BestLoopTiesLast(n, els, i + 1, best, best_score)

\* the scoring loop of overpass_lookup_website_by_name
RECURSIVE BestLoop(_, _, _, _, _)
BestLoop(n, els, i, best, best_score) ==
    IF i > Len(els) THEN best
    ELSE LET el    == els[i]
             score == Score(n, el)
         IN  IF el.w = <<>> THEN BestLoop(n, els, i + 1, best, best_score)
             ELSE IF score > best_score THEN BestLoop(n, els, i + 1, el.w, score)
             ELSE BestLoop(n, els, i + 1, best, best_score)

\* the resolver with OVERPASS_NAME_LOOKUP_ENABLED left out of its test
overpass_lookup_one_flag(name, c, resp) ==
    IF ~c.overpass_enabled THEN [w |-> None, reqs |-> <<>>]
    ELSE IF name = <<>> \/ norm_name(name) = <<>> THEN [w |-> None, reqs |-> <<>>]
    ELSE IF ~resp.ok THEN [w |-> None, reqs |-> <<"overpass">>]
    ELSE [w    |-> normalize_url(BestLoop(norm_name(name), resp.items, 1, <<>>, -1000000000)),
          reqs |-> <<"overpass">>]

overpass_lookup_website_by_name(name, c, resp) ==
    IF ~(c.overpass_enabled /\ c.name_lookup) THEN [w |-> None, reqs |-> <<>>]
    ELSE IF name = <<>> \/ norm_name(name) = <<>> THEN [w |-> None, reqs |-> <<>>]
    ELSE IF ~resp.ok THEN [w |-> None, reqs |-> <<"overpass">>]
    ELSE [w    |-> normalize_url(BestLoop(norm_name(name), resp.items, 1, <<>>, -1000000000)),
          reqs |-> <<"overpass">>]

\* fsq_find_website: resp.results are the places found, resp.detail the
\* answer to the detail request for the first of them
fsq_find_website(c, resp) ==
    IF ~c.fsq_key THEN [w |-> None, reqs |-> <<>>]
    ELSE IF ~resp.ok \/ resp.results = <<>> THEN [w |-> None, reqs |-> <<"fsq_search">>]
    ELSE LET first == resp.results[1]
         IN  IF first.website # <<>>
             THEN [w |-> normalize_url(first.website), reqs |-> <<"fsq_search">>]
             ELSE IF first.fsq_id
             THEN [w    |-> IF resp.detail.ok /\ resp.detail.website # <<>>
                            THEN normalize_url(resp.detail.website) ELSE None,
                   reqs |-> <<"fsq_search", "fsq_detail">>]
             ELSE [w |-> None, reqs |-> <<"fsq_search">>]

\* the order of resolve_website, and the counter of each resolver
ResolverOrder == <<"direct", "wikidata", "nominatim", "overpass", "fsq">>

StatOf(r) ==
    CASE r = "direct"    -> "website_direct"
      [] r = "wikidata"  -> "website_wikidata"
      [] r = "nominatim" -> "website_nominatim"
      [] r = "overpass"  -> "website_overpass_name"
      [] r = "fsq"       -> "website_fsq"

\* the requests that belong to each resolver
ReqsOf(r) ==
    CASE r = "direct"    -> {}
      [] r = "wikidata"  -> {"wikidata"}
      [] r = "nominatim" -> {"nominatim"}
      [] r = "overpass"  -> {"overpass"}
      [] r = "fsq"       -> {"fsq_search", "fsq_detail"}

\* the resolver resolve_website turns to when resolver r gave no URL
\* ("": none is left, resolve_website returns None)
NextResolverSwapped(r) ==
    CASE r = "direct"    -> "nominatim"
      [] r = "nominatim" -> "wikidata"
      [] r = "wikidata"  -> "overpass"
      [] r = "overpass"  -> "fsq"
      [] r = "fsq"       -> ""

NextResolver(r) ==
    CASE r = "direct"    -> "wikidata"
      [] r = "wikidata"  -> "nominatim"
      [] r = "nominatim" -> "overpass"
      [] r = "overpass"  -> "fsq"
      [] r = "fsq"       -> ""

\* ---------------------------------------------------------------------
\* main: candidates, gate, SeenSet
\* ---------------------------------------------------------------------
StatKeys ==
    {"osm_candidates", "cand_overpass", "cand_nominatim_poi",
     "skip_no_website", "skip_dupe_domain", "skip_robots", "skip_fetch",
     "skip_big_site", "website_direct", "website_overpass_name",
     "website_nominatim", "website_fsq", "website_wikidata"}

SkipKeys ==
    {"skip_no_website", "skip_dupe_domain", "skip_robots", "skip_fetch", "skip_big_site"}

ZeroStats == [k \in StatKeys |-> 0]

Bump(stats, k) == [stats EXCEPT ![k] = @ + 1]

MAX_HTML_KB_SMALL_SITE == 600
MAX_SCRIPTS_SMALL_SITE == 40

\* is_probably_small_site: html.bytes is the size of the page, html.scripts
\* the number of "<script" in it
is_probably_small_site(html, c) ==
    IF ~c.small_site_only THEN TRUE
    ELSE IF html.bytes = 0 THEN TRUE
    ELSE IF html.bytes > MAX_HTML_KB_SMALL_SITE * 1024 THEN FALSE
    ELSE IF html.scripts > MAX_SCRIPTS_SMALL_SITE THEN FALSE
    ELSE TRUE

\* f"{p.scheme}://{p.netloc}" of a URL
Origin(u) == LET p == urlparse(u) IN p.scheme \o <<":", "/", "/">> \o p.netloc

\* sorted(seen)
DomainOrder == <<"", "d1", "d2">>
SortedSeq(S) == SelectSeq(DomainOrder, LAMBDA d : d \in S)

\* load_seen: the set of the store's lines, or set() when reading fails
load_seen(ok) == IF ok THEN Range(seenFile) ELSE {}

\* seen_domain_write: one line appended to the store (the write is taken to
\* succeed; a failed write is swallowed and leaves the store as it is)
seen_domain_write(file, domain) == IF domain = "" THEN file ELSE Append(file, domain)

\* save_seen: the store rewritten (mode "w") with the in-memory set
save_seen(file, S) == SortedSeq(S)

\* ---- inputs
H(seq) == <<"http", ":", "/", "/">> \o seq
HS(seq) == <<"https", ":", "/", "/">> \o seq

\* candidates as the acquisition returns them (website already normalised)
CandSet ==
    { [business_name |-> <<"Ace", SP, "Plumbing", SP, "Ltd">>,
                                 website |-> HS(<<"d1">>),         wikidata |-> ""],
      [business_name |-> <<"Bee">>, website |-> H(<<"www.d1", "/">>), wikidata |-> ""],
      [business_name |-> <<"Cee">>, website |-> None,                 wikidata |-> "Q1"],
      [business_name |-> <<"Ltd", ".">>, website |-> None,            wikidata |-> "node1"],
      [business_name |-> <<"Dee">>, website |-> H(<<":", "80">>),     wikidata |-> ""] }

NoBiz == [business_name |-> <<>>, website |-> None, wikidata |-> ""]

\* lists of distinct candidates of length at most n
CandLists(n) ==
    UNION { {l \in [1..k -> CandSet] : \A i, j \in 1..k : i # j => l[i] # l[j]}
            : k \in 0..n }

Failed == [ok |-> FALSE, items |-> <<>>]

WikidataResps ==
    { Failed,
      [ok |-> TRUE, items |-> <<>>],
      [ok |-> TRUE, items |-> << <<"ftp", ":", "/", "/", "d1">>, H(<<"d2">>) >>] }

NominatimResps ==
    { Failed,
      [ok |-> TRUE, items |-> << <<>>, <<"u", "@", "d1">>, <<"d2", "/">> >>],
      [ok |-> TRUE, items |-> << H(<<"u", "@", "d1">>) >>] }

OverpassResps ==
    { Failed,
      [ok |-> TRUE, items |-> << [name |-> <<"Cee">>, w |-> <<"d1">>, dist |-> 5],
                                 [name |-> <<"Cee">>, w |-> <<"d2">>, dist |-> 5] >>],
      [ok |-> TRUE, items |-> << [name |-> <<"Cee">>, w |-> <<"ftp", ":", "/", "/", "d1">>,
                                  dist |-> 5],
                                 [name |-> <<"Bee">>, w |-> <<"d2">>, dist |-> 5] >>] }

NoDetail == [ok |-> FALSE, website |-> <<>>]

FsqResps ==
    { [ok |-> FALSE, results |-> <<>>, detail |-> NoDetail],
      [ok |-> TRUE,  results |-> <<>>, detail |-> NoDetail],
      [ok |-> TRUE,  results |-> << [website |-> <<"d2">>, fsq_id |-> TRUE] >>,
                     detail |-> NoDetail],
      [ok |-> TRUE,  results |-> << [website |-> <<>>, fsq_id |-> TRUE] >>,
                     detail |-> [ok |-> TRUE, website |-> H(<<":", "80">>)]],
      [ok |-> TRUE,  results |-> << [website |-> <<>>, fsq_id |-> TRUE] >>,
                     detail |-> NoDetail],
      [ok |-> TRUE,  results |-> << [website |-> <<>>, fsq_id |-> FALSE] >>,
                     detail |-> NoDetail] }

\* homepages: size in bytes, number of "<script", the language the response
\* header or the html/meta element declares ("": none), and whether the
\* text holds enough English words
Pages ==
    { [bytes |-> 0,      scripts |-> 0,  lang |-> "",   english |-> FALSE],
      [bytes |-> 2000,   scripts |-> 3,  lang |-> "en", english |-> TRUE],
      [bytes |-> 2000,   scripts |-> 3,  lang |-> "de", english |-> FALSE],
      [bytes |-> 700000, scripts |-> 3,  lang |-> "en", english |-> TRUE],
      [bytes |-> 2000,   scripts |-> 41, lang |-> "en", english |-> TRUE] }

NoPage == [bytes |-> 0, scripts |-> 0, lang |-> "", english |-> FALSE]

\* missing: the required TRELLO_* variables that are not set
DefaultConfig ==
    [overpass_enabled |-> TRUE, name_lookup |-> TRUE, fsq_key |-> TRUE,
     small_site_only |-> TRUE, poi_enabled |-> TRUE, missing |-> {},
     daily_limit |-> DAILY_LIMIT]

Configs ==
    { DefaultConfig,
      [DefaultConfig EXCEPT !.name_lookup = FALSE, !.fsq_key = FALSE],
      [DefaultConfig EXCEPT !.overpass_enabled = FALSE, !.fsq_key = FALSE],
      [DefaultConfig EXCEPT !.missing = {"TRELLO_TOKEN"}],
      [DefaultConfig EXCEPT !.overpass_enabled = FALSE, !.poi_enabled = FALSE] }

NoCand0 == [stats |-> ZeroStats, nleads |-> 0]

\* contents of the store before the first process
Stores == { <<>>, <<"d1">> }

\* ---- get_osm_candidates not called yet
NoJs == [ok |-> FALSE, elements |-> <<>>]

AcqIdle ==
    [pc |-> "idle", overpass_enabled |-> TRUE, poi_enabled |-> TRUE,
     radius |-> 0, rad |-> 1, radii |-> <<>>, ep |-> 1, attempt |-> 1, js |-> NoJs,
     q |-> 0, out |-> <<>>, seen_key |-> {},
     cands |-> <<>>, cand_overpass |-> 0, cand_nominatim_poi |-> 0,
     log |-> <<>>, answers |-> <<>>, poi_items |-> <<>>]

\* ---- overpass_lookup_website_by_name not called yet
LookupIdle == [pc |-> "idle", name |-> <<>>, resp |-> Failed, best |-> <<>>, w |-> None]

\* ---- no robots check made yet
RbIdle == [cache |-> <<>>, log |-> <<>>]

\* ---- no throttled request made yet: _LAST_CALL is empty, and get(key, 0.0)
\* reads 0 for every key
ThrottleKeys == {"nominatim", "nominatim_poi", "nominatim_lookup", "wikidata"}

ThrIdle == [now |-> 0, last |-> [k \in ThrottleKeys |-> 0], sent |-> <<>>]

\* ---- the push loop has not started
BoardIdle == [pc |-> "idle", cards |-> <<>>, leads |-> <<>>, k |-> 1, pushed |-> 0, log |-> <<>>]

\* ---- the city loop has not started
NoArea == [city |-> "", country |-> ""]

CsvIdle == [pc |-> "idle", cities |-> <<>>, last |-> NoArea, candsLeft |-> 0,
            leads |-> <<>>, areas |-> <<>>, rows |-> <<>>]

\* ---- the emailer has not run yet
Day0Idle ==
    [pc |-> "idle", cards |-> <<>>, marked |-> {}, cacheFile |-> {}, sent_cache |-> {},
     i |-> 1, processed |-> 0, sent |-> <<>>, marked0 |-> {}]

\* ---- no process has run yet
RunIdle ==
    /\ run = 0 /\ pc = "idle" /\ cfg = DefaultConfig
    /\ STATS = ZeroStats /\ leads = <<>> /\ seen = {}
    /\ robots = <<>> /\ qidCache = <<>> /\ citiesLeft = 0 /\ cands = <<>> /\ biz = NoBiz /\ site = None
    /\ page = NoPage
    /\ pushIdx = 1 /\ tried = <<>> /\ reqs = <<>> /\ gate = <<>> /\ cand0 = NoCand0
    /\ processed = 0 /\ loadOk = FALSE /\ acceptedEver = {}
    /\ acq = AcqIdle /\ lookup = LookupIdle /\ rb = RbIdle /\ thr = ThrIdle
    /\ board = BoardIdle /\ csv = CsvIdle

MergeIdle ==
    /\ desc = <<>> /\ descPrev = <<>> /\ desc0 = <<>> /\ company = <<>>
    /\ website = <<>> /\ batch = <<>> /\ nmerge = 0

Init == RunIdle /\ seenFile \in Stores /\ MergeIdle /\ day0 = Day0Idle

\* ---- the merge alone, on every input
InitMerge ==
    /\ \E lines \in Texts(MaxLines) : desc = Terminated(lines, <<LF>>)
    /\ desc0 = desc
    /\ descPrev = desc
    /\ company \in Companies
    /\ website \in Websites
    /\ batch \in Batches
    /\ nmerge = 0
    /\ RunIdle /\ seenFile = <<>> /\ day0 = Day0Idle

\* update_card_header / push_one_lead: the card's description becomes the merge
Merge ==
    /\ nmerge < MaxMerges
    /\ desc' = normalize_header_block(desc, company, website, batch)
    /\ descPrev' = desc
    /\ nmerge' = nmerge + 1
    /\ UNCHANGED <<desc0, company, website, batch>>
    /\ UNCHANGED <<runVars, acq, day0, lookup, rb, thr, board, csv>>

NextMerge == Merge

SpecMerge == InitMerge /\ [][NextMerge]_vars

\* ---- the merge on every text, the values written being fixed: what
\* _split_header_rest makes of a text depends on the text alone
InitSplit ==
    /\ InitMerge
    /\ company = <<"c", SP>>
    /\ website = <<"w">>
    /\ batch = <<>>

SpecSplit == InitSplit /\ [][NextMerge]_vars

\* ---- the merge on every input that carries a batch marker: without one
\* with_batch leaves rest_lines as they are
InitMarker == InitMerge /\ batch # <<>>

SpecMarker == InitMarker /\ [][NextMerge]_vars

candVars == <<biz, site, tried, reqs, gate, page, cand0>>

\* the startup test of main with the test of the candidate sources left out
StartupOkCredentialsOnly(c) == c.missing = {}

\* the startup test of main: the credentials are set and a candidate source
\* is enabled
StartupOk(c) ==
    /\ c.missing = {}
    /\ ~(~c.overpass_enabled /\ ~c.poi_enabled)

\* the limit test put one lead too late
LimitReachedLate == Len(leads) > cfg.daily_limit

\* len(leads) >= DAILY_LIMIT
LimitReached == Len(leads) >= cfg.daily_limit

\* main raises SystemExit at startup
StartupExit ==
    /\ pc = "idle" /\ run = 0
    /\ \E c \in Configs : ~StartupOk(c) /\ cfg' = c
    /\ run' = run + 1
    /\ UNCHANGED <<pc, STATS, leads, seen, seenFile, robots, qidCache, citiesLeft, cands,
                   pushIdx, processed, loadOk, acceptedEver, pureVars>>
    /\ UNCHANGED <<biz, site, tried, reqs, gate, page, cand0>>

\* main up to the city loop, with a configuration of cs: a new process, its
\* counters at zero, load_seen
BeginWith(cs) ==
    /\ pc = "idle"
    /\ run' = run + 1
    /\ \E c \in cs : StartupOk(c) /\ cfg' = c
    /\ \E ok \in BOOLEAN : seen' = load_seen(ok) /\ loadOk' = ok
    /\ \E n \in 1..MaxCities : citiesLeft' = n
    /\ STATS' = ZeroStats /\ leads' = <<>> /\ robots' = <<>> /\ qidCache' = <<>>
    /\ cands' = <<>> /\ biz' = NoBiz /\ site' = None /\ pushIdx' = 1 /\ page' = NoPage
    /\ tried' = <<>> /\ reqs' = <<>> /\ gate' = <<>> /\ cand0' = NoCand0
    /\ processed' = 0
    /\ pc' = "cities"
    /\ UNCHANGED <<seenFile, acceptedEver, pureVars>>

Begin == BeginWith(Configs)

\* the first process on the store
Start == run = 0 /\ Begin

\* a later process on the same store
Restart == run >= 1 /\ run < MaxRuns /\ Begin

\* geocode_city raises: the city is skipped
GeocodeFails ==
    /\ pc = "cities" /\ citiesLeft > 0
    /\ citiesLeft' = citiesLeft - 1
    /\ UNCHANGED pureVars
    /\ UNCHANGED <<run, pc, cfg, STATS, leads, seen, seenFile, robots, qidCache, cands,
                   pushIdx,
                   processed, loadOk, acceptedEver>>
    /\ UNCHANGED candVars

\* geocode_city answers and get_osm_candidates returns the city's candidates
CityCandidates ==
    /\ pc = "cities" /\ citiesLeft > 0
    /\ ~LimitReached
    /\ \E l \in CandLists(MaxCands - STATS["osm_candidates"]) :
          /\ cands' = l
          /\ STATS' = [STATS EXCEPT !["osm_candidates"] = @ + Len(l)]
    /\ pc' = "cand"
    /\ UNCHANGED pureVars
    /\ UNCHANGED <<run, cfg, leads, seen, seenFile, robots, qidCache, citiesLeft, pushIdx,
                   processed, loadOk, acceptedEver>>
    /\ UNCHANGED candVars

\* the candidate loop of a city ends: no candidate left, or the limit reached
CityEnd ==
    /\ pc = "cand"
    /\ cands = <<>> \/ LimitReached
    /\ cands' = <<>>
    /\ citiesLeft' = IF LimitReached THEN 0 ELSE citiesLeft - 1
    /\ pc' = "cities"
    /\ UNCHANGED pureVars
    /\ UNCHANGED <<run, cfg, STATS, leads, seen, seenFile, robots, qidCache, pushIdx,
                   processed, loadOk, acceptedEver>>
    /\ UNCHANGED candVars

\* the city loop ends
CitiesDone ==
    /\ pc = "cities" /\ citiesLeft = 0
    /\ pc' = "push"
    /\ pushIdx' = 1
    /\ biz' = NoBiz /\ site' = None /\ tried' = <<>> /\ reqs' = <<>> /\ gate' = <<>>
    /\ page' = NoPage
    /\ cand0' = NoCand0
    /\ UNCHANGED pureVars
    /\ UNCHANGED <<run, cfg, STATS, leads, seen, seenFile, robots, qidCache, citiesLeft,
                   cands, processed, loadOk, acceptedEver>>

\* what resolve_website does once resolver r has given res
AfterResolver(r, res) ==
    /\ tried' = Append(tried, [resolver |-> r, w |-> res.w])
    /\ reqs' = reqs \o res.reqs
    /\ site' = res.w
    /\ IF res.w # None
       THEN /\ STATS' = Bump(STATS, StatOf(r))
            /\ pc' = "gate"
       ELSE /\ STATS' = STATS
            /\ pc' = IF NextResolver(r) = "" THEN "gate" ELSE NextResolver(r)

\* the next candidate is taken; resolve_website normalises its direct hint
ResolveDirect ==
    /\ pc = "cand" /\ cands # <<>> /\ ~LimitReached
    /\ biz' = Head(cands)
    /\ cands' = Tail(cands)
    /\ processed' = processed + 1
    /\ cand0' = [stats |-> STATS, nleads |-> Len(leads)]
    /\ gate' = <<>>
    /\ page' = NoPage
    /\ LET res == [w |-> normalize_url(Head(cands).website), reqs |-> <<>>]
       IN  /\ tried' = <<[resolver |-> "direct", w |-> res.w]>>
           /\ reqs' = <<>>
           /\ site' = res.w
           /\ IF res.w # None
              THEN STATS' = Bump(STATS, StatOf("direct")) /\ pc' = "gate"
              ELSE STATS' = STATS /\ pc' = NextResolver("direct")
    /\ UNCHANGED pureVars
    /\ UNCHANGED <<run, cfg, leads, seen, seenFile, robots, qidCache, citiesLeft, pushIdx,
                   loadOk, acceptedEver>>

restVars == <<pureVars, run, cfg, leads, seen, seenFile, robots, citiesLeft, cands, pushIdx,
              processed, loadOk, acceptedEver, biz, gate, page, cand0>>

QidCached(q) == \E k \in 1..Len(qidCache) : qidCache[k].qid = q
QidEntry(q)  == qidCache[CHOOSE k \in 1..Len(qidCache) : qidCache[k].qid = q]

\* wikidata_website_from_qid is called: a cached answer is returned as it is
ResolveWikidata ==
    /\ pc = "wikidata"
    /\ IF QidCached(biz.wikidata)
       THEN /\ AfterResolver("wikidata", [w |-> QidEntry(biz.wikidata).w, reqs |-> <<>>])
            /\ UNCHANGED qidCache
       ELSE \E resp \in WikidataResps :
               LET res == wikidata_website_from_qid(biz.wikidata, resp)
               IN  /\ AfterResolver("wikidata", res)
                   /\ qidCache' = Append(qidCache, [qid |-> biz.wikidata, w |-> res.w])
    /\ UNCHANGED restVars

ResolveNominatim ==
    /\ pc = "nominatim"
    /\ \E resp \in NominatimResps :
          AfterResolver("nominatim", nominatim_lookup_website(biz.business_name, resp))
    /\ UNCHANGED <<restVars, qidCache>>

ResolveOverpass ==
    /\ pc = "overpass"
    /\ \E resp \in OverpassResps :
          AfterResolver("overpass",
                        overpass_lookup_website_by_name(biz.business_name, cfg, resp))
    /\ UNCHANGED <<restVars, qidCache>>

ResolveFsq ==
    /\ pc = "fsq"
    /\ \E resp \in FsqResps :
          LET r == fsq_find_website(cfg, resp)
          IN  AfterResolver("fsq", [w |-> normalize_url(r.w), reqs |-> r.reqs])
    /\ UNCHANGED <<restVars, qidCache>>

\* a rejection that leaves the counters alone
RejectUncounted(check, key) ==
    /\ gate' = Append(gate, [check |-> check, pass |-> FALSE])
    /\ STATS' = STATS
    /\ pc' = "cand"

\* the candidate is rejected by check `check`, counted under `key`
Reject(check, key) ==
    /\ gate' = Append(gate, [check |-> check, pass |-> FALSE])
    /\ STATS' = Bump(STATS, key)
    /\ pc' = "cand"

gateRest == <<pureVars, run, cfg, qidCache, citiesLeft, cands, pushIdx, processed, loadOk, biz,
              site, tried, cand0>>

\* the checks of the gate that need no request: website resolved, domain seen
GateLocal ==
    /\ pc = "gate"
    /\ IF site = None
       THEN Reject("website", "skip_no_website")
       ELSE IF etld1_from_url(site) # "" /\ etld1_from_url(site) \in seen
       THEN /\ gate' = <<[check |-> "website", pass |-> TRUE],
                         [check |-> "seen", pass |-> FALSE]>>
            /\ STATS' = Bump(STATS, "skip_dupe_domain")
            /\ pc' = "cand"
       ELSE /\ gate' = <<[check |-> "website", pass |-> TRUE],
                         [check |-> "seen", pass |-> TRUE]>>
            /\ STATS' = STATS
            /\ pc' = "robots"
    /\ UNCHANGED <<leads, seen, seenFile, robots, reqs, acceptedEver>>
    /\ UNCHANGED gateRest
    /\ UNCHANGED page

IsCached(o) == \E k \in 1..Len(robots) : robots[k].origin = o
Cached(o)   == (CHOOSE k \in 1..Len(robots) : robots[k].origin = o)

\* what the fetch of /robots.txt gives: "fail" (an exception or a status
\* other than 200), or a 200 document that allows or disallows "/"
RobotsAnswers == {"fail", "allow", "disallow"}

\* the parser of a failed fetch refusing instead of allowing
can_fetch_fail_closed(answer) == answer = "allow"

\* rp.can_fetch(UA, "/") of the parser built from the answer: rp.parse([])
\* allows everything
can_fetch(answer) == answer # "disallow"

\* allowed_by_robots(base) with the lru_cache of _robots_parser_for_base in
\* `cache`: a cached origin is answered from its parser, for any other origin
\* /robots.txt is fetched, `answer` is what the fetch gives, and the parser
\* built from it is cached. The cache keeps of a parser what can_fetch(UA, "/")
\* gives.
allowed_by_robots(cache, o, answer) ==
    IF \E k \in 1..Len(cache) : cache[k].origin = o
    THEN [cache   |-> cache,
          allowed |-> cache[CHOOSE k \in 1..Len(cache) : cache[k].origin = o].allowed,
          fetched |-> FALSE]
    ELSE [cache   |-> Append(cache, [origin |-> o, allowed |-> can_fetch(answer)]),
          allowed |-> can_fetch(answer),
          fetched |-> TRUE]

\* the robots check of the gate
GateRobots ==
    /\ pc = "robots"
    /\ LET o == Origin(site)
       IN  \E answer \in RobotsAnswers :
              LET r       == allowed_by_robots(robots, o, answer)
                  hit     == ~r.fetched
                  allowed == r.allowed
              IN  /\ hit => answer = "fail"
                  /\ robots' = r.cache
                  /\ reqs' = IF hit THEN reqs ELSE Append(reqs, "robots")
                  /\ IF allowed
                     THEN /\ gate' = Append(gate, [check |-> "robots", pass |-> TRUE])
                          /\ STATS' = STATS
                          /\ pc' = "fetch"
                     ELSE Reject("robots", "skip_robots")
    /\ UNCHANGED <<leads, seen, seenFile, acceptedEver>>
    /\ UNCHANGED gateRest
    /\ UNCHANGED page

\* fetch(website) raises
GateFetchFails ==
    /\ pc = "fetch"
    /\ reqs' = Append(reqs, "homepage")
    /\ Reject("fetch", "skip_fetch")
    /\ UNCHANGED <<leads, seen, seenFile, robots, acceptedEver>>
    /\ UNCHANGED gateRest
    /\ UNCHANGED page

\* fetch(website) answers: the size heuristic, and on success the lead is
\* appended and its domain registered in the store and in memory
GateFetched ==
    /\ pc = "fetch"
    /\ reqs' = Append(reqs, "homepage")
    /\ \E html \in Pages :
          /\ page' = html
          /\ IF ~is_probably_small_site(html, cfg)
             THEN /\ gate' = gate \o <<[check |-> "fetch", pass |-> TRUE],
                                       [check |-> "size", pass |-> FALSE]>>
                  /\ STATS' = Bump(STATS, "skip_big_site")
                  /\ UNCHANGED <<leads, seen, seenFile, acceptedEver>>
             ELSE /\ gate' = gate \o <<[check |-> "fetch", pass |-> TRUE],
                                       [check |-> "size", pass |-> TRUE]>>
                  /\ STATS' = STATS
                  /\ leads' = Append(leads, [Company |-> biz.business_name, Website |-> site])
                  /\ seenFile' = seen_domain_write(seenFile, etld1_from_url(site))
                  /\ seen' = IF etld1_from_url(site) # "" THEN seen \cup {etld1_from_url(site)}
                             ELSE seen
                  /\ acceptedEver' = IF etld1_from_url(site) # ""
                                     THEN acceptedEver \cup {etld1_from_url(site)}
                                     ELSE acceptedEver
    /\ pc' = "cand"
    /\ UNCHANGED robots
    /\ UNCHANGED gateRest

pushRest == <<pureVars, run, cfg, STATS, leads, robots, qidCache, citiesLeft, cands, processed,
              loadOk, acceptedEver>>

\* push_one_lead: the lead is written to a blank card and its domain is
\* registered again, or no blank card exists and the lead is skipped
PushLead ==
    /\ pc = "push" /\ pushIdx <= Len(leads)
    /\ \E pushed \in BOOLEAN :
          LET dom == etld1_from_url(leads[pushIdx].Website)
          IN  IF pushed
              THEN /\ seenFile' = seen_domain_write(seenFile, dom)
                   /\ seen' = IF dom # "" THEN seen \cup {dom} ELSE seen
              ELSE UNCHANGED <<seenFile, seen>>
    /\ pushIdx' = pushIdx + 1
    /\ UNCHANGED pc
    /\ UNCHANGED pushRest
    /\ UNCHANGED candVars

\* a board request of push_one_lead raises: the process ends there
PushRaises ==
    /\ pc = "push" /\ pushIdx <= Len(leads)
    /\ pc' = "idle"
    /\ UNCHANGED <<seenFile, seen, pushIdx>>
    /\ UNCHANGED pushRest
    /\ UNCHANGED candVars

\* the end of main: save_seen(seen)
Flush ==
    /\ pc = "push" /\ pushIdx > Len(leads)
    /\ seenFile' = save_seen(seenFile, seen)
    /\ pc' = "idle"
    /\ UNCHANGED <<seen, pushIdx>>
    /\ UNCHANGED pushRest
    /\ UNCHANGED candVars

Next ==
    \/ Start
    \/ StartupExit
    \/ GeocodeFails
    \/ CityCandidates
    \/ CityEnd
    \/ CitiesDone
    \/ ResolveDirect
    \/ ResolveWikidata
    \/ ResolveNominatim
    \/ ResolveOverpass
    \/ ResolveFsq
    \/ GateLocal
    \/ GateRobots
    \/ GateFetchFails
    \/ GateFetched
    \/ PushLead
    \/ PushRaises
    \/ Flush

Spec == Init /\ [][Next]_vars

\* ---------------------------------------------------------------------
\* One process of main with DAILY_LIMIT below the number of candidates: the
\* limit is 0 or 1.
\* ---------------------------------------------------------------------
LimitConfigs == { [DefaultConfig EXCEPT !.daily_limit = n] : n \in {0, 1} }

StartLimited == run = 0 /\ BeginWith(LimitConfigs)

\* geocode_city answers for a city that starts with the limit reached: the
\* candidate search is skipped and the city loop breaks
CitySkipped ==
    /\ pc = "cities" /\ citiesLeft > 0
    /\ LimitReached
    /\ citiesLeft' = 0
    /\ UNCHANGED pureVars
    /\ UNCHANGED <<run, pc, cfg, STATS, leads, seen, seenFile, robots, qidCache, cands,
                   pushIdx, processed, loadOk, acceptedEver>>
    /\ UNCHANGED candVars

NextLimited ==
    \/ StartLimited
    \/ GeocodeFails
    \/ CitySkipped
    \/ CityCandidates
    \/ CityEnd
    \/ CitiesDone
    \/ ResolveDirect
    \/ ResolveWikidata
    \/ ResolveNominatim
    \/ ResolveOverpass
    \/ ResolveFsq
    \/ GateLocal
    \/ GateRobots
    \/ GateFetchFails
    \/ GateFetched
    \/ PushLead
    \/ PushRaises
    \/ Flush

SpecLimited == Init /\ [][NextLimited]_vars

\* ---- processes one after another on the same store
NextRuns ==
    \/ Next
    \/ Restart

SpecRuns == Init /\ [][NextRuns]_vars

\* ------------------------------------------------------------------
\* Candidate acquisition: get_osm_candidates, one call.  acq holds the call's
\* position and locals; log (the posts of the spatial query in progress) and
\* answers (what each spatial query of the call gave) are history.
\* ------------------------------------------------------------------
OVERPASS_RETRIES == 2
NOMINATIM_POI_QUERIES_PER_CITY == 3
OSM_RADIUS_M == 2500

OVERPASS_ENDPOINTS == <<"overpass-api.de", "overpass.kumi.systems">>

\* the radii get_osm_candidates tries, in order, when OSM_RADIUS_M is r
RadiiOf(r) == <<r, Max(800, r \div 2), Max(500, r \div 3)>>

Radii == RadiiOf(OSM_RADIUS_M)

\* values of the environment variable OSM_RADIUS_M: the default and two
\* smaller ones
OsmRadiusChoices == {500, 800, OSM_RADIUS_M}

\* elements of a decoded Overpass body: tags name, website, wikidata, and the
\* coordinates (lat, lon or center)
El(n, w, q, pos) == [name |-> n, website |-> w, wikidata |-> q, pos |-> pos]

OverpassBodies ==
    { <<>>,
      << El(<<SP>>, <<"d1">>, "", "p1") >>,
      << El(<<"Ace">>, <<"d1">>, "", "p1") >>,
      << El(<<"Ace", SP>>, <<"d1">>, "", "p1"), El(<<"ACE">>, HS(<<"www.d1">>), "Q1", "p2"),
         El(<<"Bee">>, <<>>, "Q1", "p1"), El(<<"Bee">>, <<>>, "", "p2") >> }

\* what one SESS.post of _overpass_post gives: an exception (the post raised,
\* or the body of a 200 response did not decode), a status other than 200, or
\* a 200 response with its decoded body
PostOutcomes ==
    { [status |-> "error", elements |-> <<>>], [status |-> "non200", elements |-> <<>>] }
    \cup { [status |-> "200", elements |-> b] : b \in OverpassBodies }

\* _overpass_post after a failed attempt: the next attempt on the same
\* endpoint, then the next endpoint, then None
AfterFailureFirstEndpoint(ep, attempt) ==
    IF attempt < OVERPASS_RETRIES
    THEN [more |-> TRUE, ep |-> ep, attempt |-> attempt + 1]
    ELSE [more |-> FALSE, ep |-> ep, attempt |-> attempt]

AfterFailure(ep, attempt) ==
    IF attempt < OVERPASS_RETRIES
    THEN [more |-> TRUE, ep |-> ep, attempt |-> attempt + 1]
    ELSE IF ep < Len(OVERPASS_ENDPOINTS)
         THEN [more |-> TRUE, ep |-> ep + 1, attempt |-> 1]
         ELSE [more |-> FALSE, ep |-> ep, attempt |-> attempt]

\* overpass_local_businesses: a row per named element
Row(el) ==
    [business_name |-> Strip(el.name),
     website |-> IF el.website # <<>> THEN normalize_url(el.website) ELSE None,
     wikidata |-> el.wikidata, pos |-> el.pos]

RECURSIVE Rows(_)
Rows(els) ==
    IF els = <<>> THEN <<>>
    ELSE IF Strip(Head(els).name) = <<>> THEN Rows(Tail(els))
         ELSE <<Row(Head(els))>> \o Rows(Tail(els))

OverpassKey(r) == <<Lower(r.business_name), etld1_from_url(r.website)>>

\* dedup: the first row of each key
RECURSIVE DedupRows(_, _)
DedupRows(rows, keys) ==
    IF rows = <<>> THEN <<>>
    ELSE IF OverpassKey(Head(rows)) \in keys THEN DedupRows(Tail(rows), keys)
         ELSE <<Head(rows)>> \o DedupRows(Tail(rows), keys \cup {OverpassKey(Head(rows))})

\* random.shuffle: every order of the list
Shuffles(l) == { [i \in 1..Len(l) |-> l[p[i]]] : p \in Permutations(1..Len(l)) }

\* items of a Nominatim search answer
It(n, dn, k, t, w, pos) ==
    [name |-> n, display_name |-> dn, class |-> k, type |-> t, website |-> w, pos |-> pos]

PoiAnswers ==
    { <<>>,
      << It(<<"Ace">>, <<>>, "office", "lawyer", <<"d1">>, "p1") >>,
      << It(<<>>, <<"Bee", SP, ",", SP, "Town">>, "", "", <<>>, "p1"),
         It(<<"Bee">>, <<>>, "shop", "car", <<>>, "p1"),
         It(<<"Elm">>, <<>>, "highway", "road", <<>>, "p2"),
         It(<<>>, <<>>, "shop", "car", <<>>, "p2"),
         It(<<"Fay">>, <<>>, "place", "house", <<"d2">>, "p2") >> }

PoiOutcomes ==
    { [status |-> "error", items |-> <<>>], [status |-> "non200", items |-> <<>>] }
    \cup { [status |-> "200", items |-> a] : a \in PoiAnswers }

\* _guess_name_from_nominatim, stripped as its caller does
guess_name_from_nominatim(it) ==
    LET nm == Strip(it.name)
        dn == Strip(it.display_name)
    IN  IF nm # <<>> THEN nm
        ELSE IF dn # <<>> /\ Contains(dn, ",")
        THEN Strip(SubSeq(dn, 1, Find(dn, ",", 1) - 1))
        ELSE dn

PoiKept(it) ==
    /\ guess_name_from_nominatim(it) # <<>>
    /\ ~(it.class # "" /\ it.class \notin {"office", "shop", "amenity", "tourism", "leisure", "craft"})
    /\ it.type \notin {"house", "residential", "road", "yes", "city", "town", "village",
                       "suburb", "neighbourhood"}

PoiWebsite(it) == IF it.website # <<>> THEN normalize_url(it.website) ELSE None

PoiKey(it) ==
    LET d == etld1_from_url(PoiWebsite(it))
    IN  <<Lower(guess_name_from_nominatim(it)), IF d # "" THEN d ELSE it.pos>>

\* the item loop of nominatim_poi_candidates over one answer
RECURSIVE PoiLoop(_, _, _)
PoiLoop(items, out, keys) ==
    IF items = <<>> THEN [out |-> out, seen_key |-> keys]
    ELSE LET it == Head(items)
         IN  IF ~PoiKept(it) \/ PoiKey(it) \in keys
             THEN PoiLoop(Tail(items), out, keys)
             ELSE PoiLoop(Tail(items),
                          Append(out, [business_name |-> guess_name_from_nominatim(it),
                                       website |-> PoiWebsite(it), wikidata |-> "",
                                       pos |-> it.pos]),
                          keys \cup {PoiKey(it)})

\* get_osm_candidates with the POI search started whatever Strategy A gave
AfterOverpassAlways(a) ==
    IF a.poi_enabled
    THEN [a EXCEPT !.pc = "poi", !.q = Max(1, NOMINATIM_POI_QUERIES_PER_CITY),
                   !.out = <<>>, !.seen_key = {}]
    ELSE [a EXCEPT !.pc = "done"]

\* get_osm_candidates after its Overpass part
AfterOverpass(a) ==
    IF a.cands = <<>> /\ a.poi_enabled
    THEN [a EXCEPT !.pc = "poi", !.q = Max(1, NOMINATIM_POI_QUERIES_PER_CITY),
                   !.out = <<>>, !.seen_key = {}]
    ELSE [a EXCEPT !.pc = "done"]

NewQuery(a, rad) ==
    [a EXCEPT !.pc = "post", !.rad = rad, !.radii = Append(@, RadiiOf(a.radius)[rad]),
              !.ep = 1, !.attempt = 1, !.log = <<>>, !.js = NoJs]

\* get_osm_candidates is called
AcqCall ==
    /\ acq.pc = "idle"
    /\ \E c \in Configs, r \in OsmRadiusChoices :
          /\ StartupOk(c)
          /\ LET a == [AcqIdle EXCEPT !.overpass_enabled = c.overpass_enabled,
                                      !.poi_enabled = c.poi_enabled, !.radius = r]
             IN  acq' = IF c.overpass_enabled THEN NewQuery(a, 1) ELSE AfterOverpass(a)
    /\ UNCHANGED <<mergeVars, runVars, day0, lookup, rb, thr, board, csv>>

\* _overpass_post: one attempt
AcqPost ==
    /\ acq.pc = "post"
    /\ \E o \in PostOutcomes :
          LET logged == [acq EXCEPT !.log = Append(@, [radius |-> RadiiOf(acq.radius)[acq.rad],
                                                       ep |-> acq.ep,
                                                       attempt |-> acq.attempt,
                                                       status |-> o.status,
                                                       elements |-> o.elements])]
              n == AfterFailure(acq.ep, acq.attempt)
          IN  acq' = IF o.status = "200"
                     THEN [logged EXCEPT !.pc = "answered",
                                         !.js = [ok |-> TRUE, elements |-> o.elements]]
                     ELSE IF n.more
                          THEN [logged EXCEPT !.ep = n.ep, !.attempt = n.attempt]
                          ELSE [logged EXCEPT !.pc = "answered", !.js = NoJs]
    /\ UNCHANGED <<mergeVars, runVars, day0, lookup, rb, thr, board, csv>>

\* overpass_local_businesses after _overpass_post, and the radius loop
AcqAnswered ==
    /\ acq.pc = "answered"
    /\ \E out \in Shuffles(IF acq.js.ok THEN DedupRows(Rows(acq.js.elements), {}) ELSE <<>>) :
          LET a == [acq EXCEPT !.cands = out,
                               !.cand_overpass = IF acq.js.ok THEN @ + Len(out) ELSE @,
                               !.answers = Append(@, acq.js)]
          IN  acq' = IF out = <<>> /\ acq.rad < Len(Radii)
                     THEN NewQuery(a, acq.rad + 1)
                     ELSE AfterOverpass(a)
    /\ UNCHANGED <<mergeVars, runVars, day0, lookup, rb, thr, board, csv>>

\* nominatim_poi_candidates: one query
AcqPoiQuery ==
    /\ acq.pc = "poi" /\ acq.q > 0
    /\ \E o \in PoiOutcomes :
          LET r == PoiLoop(o.items, acq.out, acq.seen_key)
          IN  acq' = IF o.status = "200"
                     THEN [acq EXCEPT !.q = @ - 1, !.out = r.out, !.seen_key = r.seen_key,
                                      !.poi_items = @ \o o.items]
                     ELSE [acq EXCEPT !.q = @ - 1]
    /\ UNCHANGED <<mergeVars, runVars, day0, lookup, rb, thr, board, csv>>

\* nominatim_poi_candidates returns, and get_osm_candidates with it
AcqPoiReturn ==
    /\ acq.pc = "poi" /\ acq.q = 0
    /\ \E out \in Shuffles(acq.out) :
          acq' = [acq EXCEPT !.pc = "done", !.cands = out,
                             !.cand_nominatim_poi = @ + Len(out)]
    /\ UNCHANGED <<mergeVars, runVars, day0, lookup, rb, thr, board, csv>>

NextAcq == AcqCall \/ AcqPost \/ AcqAnswered \/ AcqPoiQuery \/ AcqPoiReturn

InitAcq == RunIdle /\ seenFile = <<>> /\ MergeIdle /\ day0 = Day0Idle

SpecAcq == InitAcq /\ [][NextAcq]_vars

\* ------------------------------------------------------------------
\* The Day-0 emailer (trello_email_day0.py), one run of its main.  day0 holds
\* the cards of the list, those with a marker comment, the sent-cache file, the
\* run's position and locals, the emails handed to SMTP, and the cards that
\* carried the marker when the run began.
\* ------------------------------------------------------------------
\* LABEL_RE[lab].match(line) of the emailer: ^\s*lab\s*[:\-]\s*(.*)$
Day0AfterLabel(lab, line) ==
    LET t == LStrip(line)
    IN  IF t # <<>> /\ Head(t) = lab THEN LStrip(Tail(t)) ELSE <<>>

Day0LabelMatch(lab, line) ==
    LET r == Day0AfterLabel(lab, line) IN r # <<>> /\ Head(r) \in {":", "-"}

Day0AnyLabel(line) == \E lab \in LabelSet : Day0LabelMatch(lab, line)

\* the while loop of parse_header from line i on: every label line of the
\* text sets its label, the last one of a label wins
RECURSIVE ParseLoop(_, _, _)
ParseLoop(lines, i, out) ==
    IF i > Len(lines) THEN out
    ELSE IF ~Day0AnyLabel(lines[i]) THEN ParseLoop(lines, i + 1, out)
    ELSE LET lab   == CHOOSE l \in LabelSet : Day0LabelMatch(l, lines[i])
             val   == Strip(Tail(Day0AfterLabel(lab, lines[i])))
             takes == /\ val = <<>>
                      /\ i + 1 <= Len(lines)
                      /\ Strip(lines[i + 1]) # <<>>
                      /\ ~Day0AnyLabel(lines[i + 1])
         IN  ParseLoop(lines, IF takes THEN i + 2 ELSE i + 1,
                       [out EXCEPT ![lab] = IF takes THEN Strip(lines[i + 1]) ELSE val])

parse_header(d) ==
    ParseLoop(SplitLines(NormNewlines(d)), 1, [lab \in LabelSet |-> <<>>])

MAX_SEND_PER_RUN == 0

CardIds == 1..MaxBoard

\* a card as main reads it: id, and the address clean_email finds in its
\* description ("" when none)
Cards == [id : CardIds, email : {"", "a@x"}]

Boards ==
    UNION { {l \in [1..k -> Cards] : \A i, j \in 1..k : i # j => l[i].id # l[j].id}
            : k \in 0..MaxBoard }

InitDay0 ==
    /\ RunIdle /\ seenFile = <<>> /\ MergeIdle
    /\ \E b \in Boards, f \in SUBSET CardIds :
          \E m \in SUBSET {b[k].id : k \in 1..Len(b)} :
             day0 = [Day0Idle EXCEPT !.cards = b, !.cacheFile = f, !.marked = m, !.marked0 = m]

notDay0 == <<mergeVars, runVars, acq, lookup, rb, thr, board, csv>>

\* main: a required environment variable is missing
D0Exit ==
    /\ day0.pc = "idle"
    /\ day0' = [day0 EXCEPT !.pc = "exit"]
    /\ UNCHANGED notDay0

\* main: the read of the list raises after its retries, or gives no list
D0NoCards ==
    /\ day0.pc = "idle"
    /\ \E ok \in BOOLEAN :
          day0' = [day0 EXCEPT !.pc = "done",
                               !.sent_cache = IF ok THEN day0.cacheFile ELSE {}]
    /\ UNCHANGED notDay0

\* main: load_sent_cache, the cards of the list
D0Start ==
    /\ day0.pc = "idle"
    /\ \E ok \in BOOLEAN :
          day0' = [day0 EXCEPT !.pc = "loop", !.i = 1, !.processed = 0,
                               !.sent_cache = IF ok THEN day0.cacheFile ELSE {}]
    /\ UNCHANGED notDay0

\* main: one iteration of "for c in cards".  The body ends after the
\* already_marked test: main calls neither send_email nor mark_sent, and
\* never save_sent_cache.
D0Card ==
    /\ day0.pc = "loop" /\ day0.i <= Len(day0.cards)
    /\ LET c == day0.cards[day0.i]
           next == [day0 EXCEPT !.i = @ + 1]
       IN  IF MAX_SEND_PER_RUN # 0 /\ day0.processed >= MAX_SEND_PER_RUN
           THEN day0' = [day0 EXCEPT !.pc = "done"]
           ELSE IF c.id \in day0.sent_cache \/ c.email = ""
                THEN day0' = next
                ELSE \E readOk \in BOOLEAN :
                        day0' = IF readOk /\ c.id \in day0.marked
                                THEN [next EXCEPT !.sent_cache = @ \cup {c.id}]
                                ELSE next
    /\ UNCHANGED notDay0

\* main: the loop is over
D0Done ==
    /\ day0.pc = "loop" /\ day0.i > Len(day0.cards)
    /\ day0' = [day0 EXCEPT !.pc = "done"]
    /\ UNCHANGED notDay0

NextDay0 == D0Exit \/ D0NoCards \/ D0Start \/ D0Card \/ D0Done

SpecDay0 == InitDay0 /\ [][NextDay0]_vars

\* ------------------------------------------------------------------
\* The name lookup on Overpass alone: overpass_lookup_website_by_name called
\* once, with both flags on, on every name and answer.  lookup holds the
\* call's arguments, the answer of _overpass_post, and the locals best and w.
\* ------------------------------------------------------------------
LookupNames == { <<"Ace", SP, "Plumbing", SP, "Ltd">>, <<"Best">>, <<"Ltd", ".">> }

LookupEls ==
    [name : { <<"Ace", SP, "Plumbing">>, <<"Best", SP, "Plumbing">>,
              <<"Gr", "ace", SP, "Plumbing">> },
     w    : { <<>>, <<"d1">>, <<"d2">>, <<"ftp", ":", "/", "/", "d1">> },
     dist : { 5, 155, NoDist }]

LookupResps ==
    { Failed } \cup
    { [ok |-> TRUE, items |-> els] : els \in UNION { [1..k -> LookupEls] : k \in 0..MaxEls } }

LookupCall ==
    /\ lookup.pc = "idle"
    /\ \E name \in LookupNames, resp \in LookupResps :
          lookup' = [pc |-> "done", name |-> name, resp |-> resp,
                     best |-> IF resp.ok /\ norm_name(name) # <<>>
                              THEN BestLoop(norm_name(name), resp.items, 1, <<>>, -1000000000)
                              ELSE <<>>,
                     w |-> overpass_lookup_website_by_name(name, cfg, resp).w]
    /\ UNCHANGED <<mergeVars, runVars, acq, day0, rb, thr, board, csv>>

NextLookup == LookupCall

InitLookup == RunIdle /\ seenFile = <<>> /\ MergeIdle /\ day0 = Day0Idle

SpecLookup == InitLookup /\ [][NextLookup]_vars

\* ---------------------------------------------------------------------
\* The robots checks of one process: allowed_by_robots called for one origin
\* after another, every answer of the servers drawn.
\* ---------------------------------------------------------------------
RobotsOrigins == { Origin(HS(<<"d1">>)), Origin(H(<<"www.d1", "/">>)), Origin(HS(<<"d2">>)) }

\* allowed_by_robots(base, "/") is called; the log keeps what the call did
RobotsCheck ==
    /\ Len(rb.log) < MaxChecks
    /\ \E o \in RobotsOrigins, answer \in RobotsAnswers :
          LET r == allowed_by_robots(rb.cache, o, answer)
          IN  /\ ~r.fetched => answer = "fail"
              /\ rb' = [cache |-> r.cache,
                        log   |-> Append(rb.log, [origin  |-> o,
                                                  fetched |-> r.fetched,
                                                  answer  |-> IF r.fetched THEN answer ELSE "none",
                                                  allowed |-> r.allowed])]
    /\ UNCHANGED <<mergeVars, runVars, acq, day0, lookup, thr, board, csv>>

NextRobots == RobotsCheck

InitRobots == RunIdle /\ seenFile = <<>> /\ MergeIdle /\ day0 = Day0Idle

SpecRobots == InitRobots /\ [][NextRobots]_vars

\* ---------------------------------------------------------------------
\* The throttled requests of one process. Times are in tenths of a second.
\* ---------------------------------------------------------------------
NominatimSearch == "nominatim.openstreetmap.org/search"

\* the functions that throttle before a request: the key and the interval
\* they pass, and the endpoint they call
ThrottledCalls ==
    { [fn |-> "geocode_city", key |-> "nominatim", interval |-> 11,
       endpoint |-> NominatimSearch],
      [fn |-> "nominatim_poi_candidates", key |-> "nominatim_poi", interval |-> 11,
       endpoint |-> NominatimSearch],
      [fn |-> "nominatim_lookup_website", key |-> "nominatim_lookup", interval |-> 11,
       endpoint |-> NominatimSearch],
      [fn |-> "wikidata_website_from_qid", key |-> "wikidata", interval |-> 6,
       endpoint |-> "www.wikidata.org/wiki/Special:EntityData"] }

\* throttle(key, min_interval_s) called at t.now: sleeps for what is missing
\* of the interval since the key's last call, then stamps the key
throttle(t, key, min_interval_s) ==
    LET wait == min_interval_s - (t.now - t.last[key])
        woke == IF wait > 0 THEN t.now + wait ELSE t.now
    IN  [t EXCEPT !.now = woke, !.last[key] = woke]

\* one of the functions throttles and sends its request
ThrottledRequest ==
    /\ Len(thr.sent) < MaxCalls
    /\ \E c \in ThrottledCalls :
          LET t == throttle(thr, c.key, c.interval)
          IN  thr' = [t EXCEPT !.sent = Append(@, [fn |-> c.fn, endpoint |-> c.endpoint,
                                                   interval |-> c.interval, at |-> t.now])]
    /\ UNCHANGED <<mergeVars, runVars, acq, day0, lookup, rb, board, csv>>

\* the process works on something else: time passes
Elapse ==
    /\ \E d \in {3, 11} : thr.now + d <= MaxClock /\ thr' = [thr EXCEPT !.now = @ + d]
    /\ UNCHANGED <<mergeVars, runVars, acq, day0, lookup, rb, board, csv>>

NextThrottle == ThrottledRequest \/ Elapse

InitThrottle == RunIdle /\ seenFile = <<>> /\ MergeIdle /\ day0 = Day0Idle

SpecThrottle == InitThrottle /\ [][NextThrottle]_vars

\* ---------------------------------------------------------------------
\* The push loop of main on the Trello list: find_empty_template_cards,
\* push_one_lead. Nobody else edits the list.
\* ---------------------------------------------------------------------
\* re.search(r"(?mi)^\s*lab\s*:\s*$", d): some line is the label with nothing
\* after the colon
EmptyLabelLine(d, lab) ==
    LET lines == SplitLines(NormNewlines(d))
    IN  \E i \in 1..Len(lines) :
           LabelMatch(lab, lines[i]) /\ Strip(Group1(lab, lines[i])) = <<>>

is_template_blank(d) ==
    \/ /\ Strip(extract_label_value(d, "Company")) = <<>>
       /\ Strip(extract_label_value(d, "Website")) = <<>>
    \/ EmptyLabelLine(d, "Company") /\ EmptyLabelLine(d, "Website")

\* find_empty_template_cards(list, max_needed): the indices of the first
\* max_needed blank cards of the list, in list order
RECURSIVE EmptiesFrom(_, _, _, _)
EmptiesFrom(cards, i, empties, max_needed) ==
    IF i > Len(cards) THEN empties
    ELSE LET e == IF is_template_blank(cards[i]) THEN Append(empties, i) ELSE empties
         IN  IF Len(e) >= max_needed THEN e
             ELSE EmptiesFrom(cards, i + 1, e, max_needed)

find_empty_template_cards(cards, max_needed) == EmptiesFrom(cards, 1, <<>>, max_needed)

\* str.replace(pat, new) from index i on
RECURSIVE ReplaceFrom(_, _, _, _)
ReplaceFrom(s, i, pat, new) ==
    IF i > Len(s) THEN <<>>
    ELSE IF i + Len(pat) - 1 <= Len(s) /\ SubSeq(s, i, i + Len(pat) - 1) = pat
         THEN new \o ReplaceFrom(s, i + Len(pat), pat, new)
         ELSE <<s[i]>> \o ReplaceFrom(s, i + 1, pat, new)

\* desc_new.replace("lab:  ", f"lab: {val}  ")
Enriched(d, lab, val) ==
    ReplaceFrom(d, 1, <<lab, ":", SP, SP>>, <<lab, ":", SP>> \o val \o <<SP, SP>>)

\* the description push_one_lead writes on a card
pushed_desc(desc_old, lead, batch_label, en) ==
    Enriched(Enriched(Enriched(
        normalize_header_block(NormNewlines(desc_old), lead.Company, lead.Website, batch_label),
        "First", en.first), "Email", en.email), "Hook", en.hook)

\* what the two enrichments find: nothing, or a first name, an email, a hook
Enrichments ==
    { [first |-> <<>>, email |-> <<>>, hook |-> <<>>],
      [first |-> <<"f">>, email |-> <<"z">>, hook |-> <<"x">>] }

\* descriptions of the cards of the list
CardTexts ==
    { Terminated(<< <<"Company", ":">>, <<"First", ":">>, <<"Website", ":">> >>, <<LF>>),
      Terminated(<< <<"Company", ":", SP, "x">>, <<"Website", ":", SP, "x">> >>, <<LF>>),
      Terminated(<< <<"Company", ":">>, <<"x">>, <<"Website", ":">>, <<"x">> >>, <<LF>>),
      Terminated(<< <<"x">>, <<"Company", ":">>, <<"Website", ":">> >>, <<LF>>) }

BoardLists == UNION { [1..n -> CardTexts] : n \in 0..MaxBoard }

LeadNames == <<"c1", "c2", "c3", "c4">>

\* main's leads after the trim to DAILY_LIMIT
PushLeads(n) == [i \in 1..n |-> [Company |-> <<LeadNames[i]>>, Website |-> HS(<<"d1">>)]]

\* main reaches the push loop with its leads
BoardStart ==
    /\ board.pc = "idle"
    /\ \E cs \in BoardLists, n \in 1..DAILY_LIMIT :
          board' = [BoardIdle EXCEPT !.pc = "push", !.cards = cs, !.leads = PushLeads(n)]
    /\ UNCHANGED <<mergeVars, runVars, acq, day0, lookup, rb, thr, csv>>

\* push_one_lead for the next lead: no blank card and the lead is skipped, or
\* the first blank card is rewritten
BoardPush ==
    /\ board.pc = "push" /\ board.k <= Len(board.leads) /\ board.pushed < DAILY_LIMIT
    /\ LET empties == find_empty_template_cards(board.cards, 1)
           lead    == board.leads[board.k]
       IN  IF empties = <<>>
           THEN board' = [board EXCEPT !.k = @ + 1,
                                       !.log = Append(@, [lead |-> board.k, card |-> 0,
                                                          old |-> <<>>, new |-> <<>>])]
           ELSE \E en \in Enrichments :
                   LET card_id  == empties[1]
                       desc_old == board.cards[card_id]
                       desc_new == pushed_desc(desc_old, lead, Batch, en)
                   IN  board' = [board EXCEPT !.k = @ + 1, !.pushed = @ + 1,
                                              !.cards[card_id] = desc_new,
                                              !.log = Append(@, [lead |-> board.k,
                                                                 card |-> card_id,
                                                                 old |-> desc_old,
                                                                 new |-> desc_new])]
    /\ UNCHANGED <<mergeVars, runVars, acq, day0, lookup, rb, thr, csv>>

\* a Trello request of push_one_lead raises: main ends
BoardRaises ==
    /\ board.pc = "push" /\ board.k <= Len(board.leads) /\ board.pushed < DAILY_LIMIT
    /\ board' = [board EXCEPT !.pc = "done"]
    /\ UNCHANGED <<mergeVars, runVars, acq, day0, lookup, rb, thr, csv>>

\* the loop is over
BoardDone ==
    /\ board.pc = "push" /\ (board.k > Len(board.leads) \/ board.pushed >= DAILY_LIMIT)
    /\ board' = [board EXCEPT !.pc = "done"]
    /\ UNCHANGED <<mergeVars, runVars, acq, day0, lookup, rb, thr, csv>>

NextBoard == BoardStart \/ BoardPush \/ BoardRaises \/ BoardDone

InitBoard == RunIdle /\ seenFile = <<>> /\ MergeIdle /\ day0 = Day0Idle

SpecBoard == InitBoard /\ [][NextBoard]_vars

\* ---------------------------------------------------------------------
\* The city loop of main and the CSV of its leads. What resolve_website and
\* the gate do with a candidate is drawn: the candidate becomes a lead or not.
\* csv.areas[i] is the area in which lead i was acquired.
\* ---------------------------------------------------------------------
Areas == { [city |-> "Lyon", country |-> "France"], [city |-> "Gent", country |-> "Belgium"],
           [city |-> "Bern", country |-> "Switzerland"] }

\* what iter_cities yields: the areas of the list, each once, in some order
CityLists ==
    UNION { {l \in [1..k -> Areas] : \A i, j \in 1..k : i # j => l[i] # l[j]} : k \in 1..MaxCities }

\* append_csv(leads, city, country): a row per lead (the timestamp left out)
append_csv(rows, ls, city, country) ==
    rows \o [i \in 1..Len(ls) |-> [city |-> city, country |-> country,
                                   company |-> ls[i].Company, website |-> ls[i].Website]]

\* main starts its city loop
CsvStart ==
    /\ csv.pc = "idle"
    /\ \E l \in CityLists : csv' = [CsvIdle EXCEPT !.pc = "cities", !.cities = l]
    /\ UNCHANGED <<mergeVars, runVars, acq, day0, lookup, rb, thr, board>>

\* the next city is taken and geocode_city raises: continue
CsvGeocodeFails ==
    /\ csv.pc = "cities" /\ csv.cities # <<>>
    /\ csv' = [csv EXCEPT !.last = Head(csv.cities), !.cities = Tail(@)]
    /\ UNCHANGED <<mergeVars, runVars, acq, day0, lookup, rb, thr, board>>

\* the next city is taken and geocoded, get_osm_candidates gives n candidates
CsvCity ==
    /\ csv.pc = "cities" /\ csv.cities # <<>>
    /\ \E n \in 0..MaxCands :
          csv' = [csv EXCEPT !.last = Head(csv.cities), !.pc = "cand",
                             !.candsLeft = IF Len(csv.leads) < DAILY_LIMIT THEN n ELSE 0]
    /\ UNCHANGED <<mergeVars, runVars, acq, day0, lookup, rb, thr, board>>

\* a candidate of the city is examined: it is skipped or becomes a lead
CsvCandidate ==
    /\ csv.pc = "cand" /\ csv.candsLeft > 0 /\ Len(csv.leads) < DAILY_LIMIT
    /\ \E accepted \in BOOLEAN :
          csv' = IF accepted
                 THEN [csv EXCEPT !.candsLeft = @ - 1,
                                  !.leads = Append(@, [Company |-> <<LeadNames[Len(csv.leads) + 1]>>,
                                                       Website |-> HS(<<"d1">>)]),
                                  !.areas = Append(@, csv.last)]
                 ELSE [csv EXCEPT !.candsLeft = @ - 1]
    /\ UNCHANGED <<mergeVars, runVars, acq, day0, lookup, rb, thr, board>>

\* the city ends; the loop breaks when the limit is reached
CsvCityEnd ==
    /\ csv.pc = "cand" /\ (csv.candsLeft = 0 \/ Len(csv.leads) >= DAILY_LIMIT)
    /\ csv' = [csv EXCEPT !.pc = "cities", !.candsLeft = 0,
                          !.cities = IF Len(csv.leads) >= DAILY_LIMIT THEN <<>> ELSE Tail(@)]
    /\ UNCHANGED <<mergeVars, runVars, acq, day0, lookup, rb, thr, board>>

\* after the loop: the leads are trimmed and appended to the CSV
CsvSave ==
    /\ csv.pc = "cities" /\ csv.cities = <<>>
    /\ LET ls == SubSeq(csv.leads, 1, IF Len(csv.leads) < DAILY_LIMIT THEN Len(csv.leads)
                                        ELSE DAILY_LIMIT)
       IN  csv' = [csv EXCEPT !.pc = "done", !.leads = ls,
                              !.rows = IF ls # <<>> /\ csv.last.city # "" /\ csv.last.country # ""
                                       THEN append_csv(@, ls, csv.last.city, csv.last.country)
                                       ELSE @]
    /\ UNCHANGED <<mergeVars, runVars, acq, day0, lookup, rb, thr, board>>

NextCsv == CsvStart \/ CsvGeocodeFails \/ CsvCity \/ CsvCandidate \/ CsvCityEnd \/ CsvSave

InitCsv == RunIdle /\ seenFile = <<>> /\ MergeIdle /\ day0 = Day0Idle

SpecCsv == InitCsv /\ [][NextCsv]_vars

\* ---------------------------------------------------------------------
\* Properties of the record merge (checked under SpecMerge, SpecMarker and SpecSplit)
\* ---------------------------------------------------------------------
Lines(d)   == SplitLines(NormNewlines(d))
Header(d)  == split_header_rest(d).header
Trailer(d) == split_header_rest(d).rest

IsPrefix(s, t) == Len(s) <= Len(t) /\ SubSeq(t, 1, Len(s)) = s

LabelIndex(lab) == CHOOSE k \in 1..Len(TARGET_LABELS) : TARGET_LABELS[k] = lab

\* number of lines of `lines` that are the marker b, compared as has_batch does
MarkerCount(lines, b) == Cardinality({k \in 1..Len(lines) : Strip(lines[k]) = b})

NonBlankCount(lines) == Cardinality({k \in 1..Len(lines) : Strip(lines[k]) # <<>>})

\* C1: merging twice with the same company, website and batch marker gives
\* byte for byte the text of the first merge (idempotence).
C1_Idempotent == nmerge >= 2 => desc = descPrev

C3_TrailerPreserved ==
    nmerge >= 1 =>
        LET old == Trailer(descPrev)
            new == Trailer(desc)
        IN  /\ IsPrefix(old, new)
            /\ NonBlankCount(SubSeq(new, Len(old) + 1, Len(new))) <= 1

\* C4: the header block of a merged text is exactly one line per vocabulary
\* label, in the order of TARGET_LABELS, then one blank line; the Company and
\* Website lines carry the values written.
C4_HeaderShape ==
    nmerge >= 1 =>
        LET h == Header(desc)
        IN  /\ Len(h) = Len(TARGET_LABELS) + 1
            /\ h = SubSeq(Lines(desc), 1, Len(h))
            /\ \A k \in 1..Len(TARGET_LABELS) :
                   FirstLabel(h[k]) = TARGET_LABELS[k]
            /\ h[Len(h)] = <<>>
            /\ h[1] = LabelLine("Company", company)
            /\ h[Len(TARGET_LABELS)] = LabelLine("Website", website)

\* the merged text had its labels out of order and one of them repeated
C4_Witness ==
    /\ nmerge = 1
    /\ Len(Lines(desc0)) = 3
    /\ FirstLabel(Lines(desc0)[1]) = "Website"
    /\ FirstLabel(Lines(desc0)[2]) = "First"
    /\ FirstLabel(Lines(desc0)[3]) = "First"

\* C5 (as stated): after at least one merge with a marker, the trailer holds
\* the marker line exactly once.
C5_MarkerOnce ==
    (nmerge >= 1 /\ batch # <<>>) => MarkerCount(Trailer(desc), batch) = 1

\* C5 (amended): the first merge appends the marker exactly when the trailer
\* lacks it, and no merge adds a second one: the trailer holds as many marker
\* lines as the original trailer did, and one if it held none; a later merge
\* leaves every earlier trailer line, the marker included, where it was.
C5_MarkerKept ==
    (nmerge >= 1 /\ batch # <<>>) =>
        LET n0  == MarkerCount(Trailer(desc0), batch)
            new == Trailer(desc)
        IN  /\ MarkerCount(new, batch) = (IF n0 = 0 THEN 1 ELSE n0)
            /\ nmerge >= 2 => IsPrefix(Trailer(descPrev), new)

\* the marker was absent, the first merge appended it and a second merge ran
C5_Witness ==
    /\ nmerge = 2
    /\ batch # <<>>
    /\ Trailer(desc0) # <<>>
    /\ MarkerCount(Trailer(desc0), batch) = 0
    /\ MarkerCount(Trailer(desc), batch) = 1

\* ---- the header run
IsBlank(line) == Strip(line) = <<>>

\* line k was consumed as the value of the empty label line before it
Consumed(lines, k) == k > 1 /\ AnyLabel(lines[k - 1]) /\ TakesNext(lines, k - 1, FirstLabel(lines[k - 1]))

\* line k is a blank line with a Website label line between i0 and it
BlankAfterWebsite(lines, i0, k) ==
    IsBlank(lines[k]) /\ \E j \in i0..(k - 1) : FirstLabel(lines[j]) = "Website"

\* line k is neither a label line, nor a consumed continuation, nor blank
EndsRun(lines, k) == ~AnyLabel(lines[k]) /\ ~IsBlank(lines[k]) /\ ~Consumed(lines, k)

\* the first line of the text the last merge parsed that is not blank
FirstLine(lines) ==
    IF \E k \in 1..Len(lines) : ~IsBlank(lines[k])
    THEN CHOOSE k \in 1..Len(lines) : ~IsBlank(lines[k]) /\ \A j \in 1..(k - 1) : IsBlank(lines[j])
    ELSE 0

\* C17 as stated: a blank line continues the header run, and after the Website
\* label only the second blank line closes it: a run that a line of free text
\* did not end holds two blank lines after its Website label line, or holds
\* one and is followed by the other.
C17_SecondBlankCloses ==
    nmerge >= 1 =>
        LET lines == Lines(descPrev)
            sp    == split_header_rest(descPrev)
            h     == sp.header
            r     == sp.rest
            blanks == { k \in 1..Len(h) : BlankAfterWebsite(h, 1, k) }
        IN  (h # <<>> /\ r # <<>> /\ (AnyLabel(r[1]) \/ IsBlank(r[1]))) =>
                \/ Cardinality(blanks) >= 2
                \/ Cardinality(blanks) = 1 /\ IsBlank(r[1])

\* C17: the header run begins at the first non-blank line when that is a
\* label line, and goes on over label lines, their consumed continuation
\* lines and blank lines.  It is closed by the first blank line that follows
\* a Website label line, that blank line being its last line, or ended by the
\* first line that is neither a label line, a consumed continuation nor
\* blank, that line being the first of the trailer; the trailer is all the
\* lines after the run.
C17_HeaderRun ==
    nmerge >= 1 =>
        LET lines == Lines(descPrev)
            sp    == split_header_rest(descPrev)
            i0    == FirstLine(lines)
        IN  IF i0 = 0 \/ ~AnyLabel(lines[i0])
            THEN sp.header = <<>> /\ sp.rest = lines
            ELSE LET stops == { k \in i0..Len(lines) :
                                   BlankAfterWebsite(lines, i0, k) \/ EndsRun(lines, k) }
                 IN  IF stops = {}
                     THEN sp.header = SubSeq(lines, i0, Len(lines)) /\ sp.rest = <<>>
                     ELSE LET k == CHOOSE x \in stops : \A y \in stops : x <= y
                              e == IF IsBlank(lines[k]) THEN k ELSE k - 1
                          IN  /\ sp.header = SubSeq(lines, i0, e)
                              /\ sp.rest = SubSeq(lines, e + 1, Len(lines))

\* the parsed text has a Website label line, one blank line and then a label
\* line, which is the first line of the trailer
C17_Witness ==
    /\ nmerge >= 1
    /\ LET lines == Lines(descPrev)
           sp    == split_header_rest(descPrev)
       IN  /\ Len(lines) >= 3
           /\ FirstLabel(lines[1]) = "Website" /\ IsBlank(lines[2]) /\ AnyLabel(lines[3])
           /\ sp.header = SubSeq(lines, 1, 2)
           /\ sp.rest = SubSeq(lines, 3, Len(lines))

\* ---------------------------------------------------------------------
\* Properties of a process and of the SeenSet store
\* ---------------------------------------------------------------------
\* registrable domains of the leads accepted by the running process
LeadDomains == { etld1_from_url(leads[i].Website) : i \in 1..Len(leads) }

\* the step appends a lead
Accepts == Len(leads') = Len(leads) + 1

\* C6: a registrable domain accepted as a lead is not accepted again, neither
\* later in the same process nor in a later process that loaded the store.
C6_NoReaccept ==
    [][ Accepts =>
          LET d == etld1_from_url(leads'[Len(leads')].Website)
          IN  ~(d # "" /\ d \in acceptedEver /\ (loadOk \/ d \in LeadDomains)) ]_vars

\* C7: every domain in the store stays in the store: no step removes one,
\* whether or not load_seen of the process read the store.
C7_StoreKeeps == [][ Range(seenFile) \subseteq Range(seenFile') ]_vars

\* a URL is absolute, http or https, without credentials, with a host
ValidUrl(u) ==
    LET p == urlparse(u)
    IN  /\ p.scheme \in {<<"http">>, <<"https">>}
        /\ ~Contains(p.netloc, "@")
        /\ hostname(p.netloc) # <<>>

\* resolve_website has returned
Resolved == pc = "gate"

\* C8: what resolve_website returns is None or a URL that is absolute, http
\* or https, without credentials and with a non-empty host.
C8_ResultValid == Resolved => (site = None \/ ValidUrl(site))

\* resolvers already invoked for the candidate
TriedNames == { tried[i].resolver : i \in 1..Len(tried) }

Resolving == pc \in Range(ResolverOrder)

\* C9: the resolvers are invoked in the order direct, wikidata, nominatim,
\* overpass, fsq; each one invoked before the last gave nothing; the result
\* is what the last one gave; requests are issued for invoked resolvers
\* only; and the counter of the successful resolver, and no other counter,
\* has gone up by one.
C9_Waterfall ==
    (Resolving \/ Resolved) =>
        /\ Len(tried) <= Len(ResolverOrder)
        /\ \A i \in 1..Len(tried) : tried[i].resolver = ResolverOrder[i]
        /\ \A i \in 1..(Len(tried) - 1) : tried[i].w = None
        /\ Range(reqs) \subseteq UNION { ReqsOf(r) : r \in TriedNames }
        /\ Resolving =>
              /\ pc = ResolverOrder[Len(tried) + 1]
              /\ tried[Len(tried)].w = None
              /\ STATS = cand0.stats
        /\ Resolved =>
              /\ site = tried[Len(tried)].w
              /\ site = None => Len(tried) = Len(ResolverOrder) /\ STATS = cand0.stats
              /\ site # None =>
                    STATS = [cand0.stats EXCEPT ![StatOf(tried[Len(tried)].resolver)] = @ + 1]

\* a resolver after two that gave nothing yields the URL, with requests issued
C9_Witness ==
    /\ Resolved /\ site # None
    /\ Len(tried) = 3
    /\ reqs = <<"wikidata", "nominatim">>

\* the checks of the gate, in order, with the counter of each
GateOrder == <<"website", "seen", "robots", "fetch", "size">>

C10_CounterOf(check) ==
    CASE check = "website" -> "skip_no_website"
      [] check = "seen"    -> "skip_dupe_domain"
      [] check = "robots"  -> "skip_robots"
      [] check = "fetch"   -> "skip_fetch"
      [] check = "size"    -> "skip_big_site"

RECURSIVE SumOver(_, _)
SumOver(stats, keys) ==
    IF keys = {} THEN 0
    ELSE LET k == CHOOSE x \in keys : TRUE
         IN  stats[k] + SumOver(stats, keys \ {k})

\* the gate has given its verdict on the candidate taken last
Decided == pc = "cand" /\ gate # <<>>

\* no candidate is being examined
Between == pc \in {"cand", "cities", "push", "idle"}

\* the candidate's gate checks so far
GateNames == { gate[i].check : i \in 1..Len(gate) }

\* C10: the checks run in the order website, seen, robots, fetch, size, each
\* after the ones before it passed; a failed check is the last one, exactly
\* its counter goes up by one, no request of a later check is issued and no
\* lead is added; and candidates taken = leads + sum of rejection counters.
C10_Gate ==
    /\ Len(gate) <= Len(GateOrder)
    /\ \A i \in 1..Len(gate) : gate[i].check = GateOrder[i]
    /\ \A i \in 1..(Len(gate) - 1) : gate[i].pass
    /\ "robots" \in Range(reqs) => "robots" \in GateNames
    /\ "homepage" \in Range(reqs) => "fetch" \in GateNames
    /\ Decided =>
          LET last == gate[Len(gate)]
          IN  IF last.pass
              THEN /\ Len(gate) = Len(GateOrder)
                   /\ Len(leads) = cand0.nleads + 1
                   /\ \A k \in SkipKeys : STATS[k] = cand0.stats[k]
              ELSE /\ Len(leads) = cand0.nleads
                   /\ \A k \in SkipKeys :
                         STATS[k] = cand0.stats[k]
                                    + (IF k = C10_CounterOf(last.check) THEN 1 ELSE 0)
    /\ Between => processed = Len(leads) + SumOver(STATS, SkipKeys)

\* a second candidate is rejected by the robots check after a first was
\* accepted
C10_Witness ==
    /\ Decided
    /\ processed = 2 /\ Len(leads) = 1
    /\ Len(gate) = 3 /\ ~gate[3].pass
    /\ STATS["skip_robots"] = 1

Ends == pc # "idle" /\ pc' = "idle"

\* C12: once started, a process ends only at the end of main, after its push
\* loop, with the final save_seen: no failed request ends it earlier.
C12_EndsWithFlush ==
    [][ Ends => (pc = "push" /\ pushIdx > Len(leads) /\ seenFile' = save_seen(seenFile, seen)) ]_vars

\* the configuration misses a required credential, or has both candidate
\* sources disabled
C13_Invalid(c) ==
    \/ \E n \in {"TRELLO_KEY", "TRELLO_TOKEN", "TRELLO_LIST_ID"} : n \in c.missing
    \/ (~c.overpass_enabled /\ ~c.poi_enabled)

\* C13: a process started with such a configuration ends at startup: it
\* examines nothing, produces no lead, neither loads nor writes the SeenSet
\* and pushes nothing.
C13_ExitsAtStartup ==
    [][ C13_Invalid(cfg') =>
          /\ pc' = "idle"
          /\ UNCHANGED <<seenFile, seen, loadOk, leads, STATS, cands, processed, reqs,
                         tried, gate, robots, qidCache, pushIdx, acceptedEver>> ]_vars

\* a process has ended at startup for a missing credential
C13_Witness == run = 1 /\ pc = "idle" /\ cfg.missing # {}

\* the step accepts the candidate as a lead
Accepted == Decided /\ gate[Len(gate)].pass

\* C14: a candidate whose homepage declares a language other than English,
\* or declares none and holds too few English words, does not become a lead.
C14_LanguageGate ==
    Accepted => /\ page.lang \in {"", "en"}
                /\ page.lang = "" => page.english

\* ---------------------------------------------------------------------
\* Properties of the candidate acquisition (checked under SpecAcq)
\* ---------------------------------------------------------------------
\* the i-th post of a spatial query: endpoints in list order, OVERPASS_RETRIES
\* attempts on each
NthPost(i) == [ep |-> ((i - 1) \div OVERPASS_RETRIES) + 1,
               attempt |-> ((i - 1) % OVERPASS_RETRIES) + 1]

AllPosts == Len(OVERPASS_ENDPOINTS) * OVERPASS_RETRIES

Collected(js) == IF js.ok THEN DedupRows(Rows(js.elements), {}) ELSE <<>>

\* C15: whatever the errors and non-200 responses, the posts of a spatial
\* query go to the endpoints in list order, at most OVERPASS_RETRIES to each,
\* and stop at the first 200 response, whose body is the answer; when every
\* post fails the answer is None after all of them, the strategy gives no
\* candidate, and get_osm_candidates returns what was collected: the rows of
\* the first radius that gave any, else those of the POI search, else none.
C15_Retries ==
    LET log == acq.log
    IN  /\ Len(log) <= AllPosts
        /\ \A i \in 1..Len(log) :
              /\ log[i].ep = NthPost(i).ep /\ log[i].attempt = NthPost(i).attempt
              /\ log[i].ep \in 1..Len(OVERPASS_ENDPOINTS)
              /\ i < Len(log) => log[i].status # "200"
        /\ acq.pc = "post" => \A i \in 1..Len(log) : log[i].status # "200"
        /\ acq.pc = "answered" =>
              /\ log # <<>>
              /\ IF log[Len(log)].status = "200"
                 THEN acq.js = [ok |-> TRUE, elements |-> log[Len(log)].elements]
                 ELSE Len(log) = AllPosts /\ acq.js = NoJs
        /\ (\A k \in 1..Len(acq.answers) : ~acq.answers[k].ok) => acq.cand_overpass = 0
        /\ acq.pc = "done" =>
              LET got == { k \in 1..Len(acq.answers) : Collected(acq.answers[k]) # <<>> }
              IN  /\ \A k \in got : k = Len(acq.answers)
                  /\ IF got # {}
                     THEN acq.cands \in Shuffles(Collected(acq.answers[Len(acq.answers)]))
                     ELSE IF acq.poi_enabled THEN acq.cands \in Shuffles(acq.out)
                          ELSE acq.cands = <<>>

\* every post of a query failed, with errors and non-200 responses, at every
\* radius; the call returned
C15_Witness ==
    /\ acq.pc = "done" /\ Len(acq.answers) = Len(Radii)
    /\ \A k \in 1..Len(acq.answers) : acq.answers[k] = NoJs
    /\ Len(acq.log) = AllPosts
    /\ \E i, j \in 1..Len(acq.log) : acq.log[i].status = "error" /\ acq.log[j].status = "non200"
    /\ acq.cands = <<>>

\* ---------------------------------------------------------------------
\* Properties of the Day-0 emailer (checked under SpecDay0)
\* ---------------------------------------------------------------------
SentTo(id) == Cardinality({k \in 1..Len(day0.sent) : day0.sent[k] = id})

\* C16: when a run of the emailer is over, every card of the list with a
\* valid Email that was neither in the sent cache nor marked has been sent
\* one email and carries the marker, and no card that was marked or cached
\* has been sent one.
C16_SendsAndMarks ==
    day0.pc = "done" /\ day0.i > Len(day0.cards) =>
        \A k \in 1..Len(day0.cards) :
            LET c == day0.cards[k]
            IN  /\ c.email # "" /\ c.id \notin day0.cacheFile /\ c.id \notin day0.marked0
                      => SentTo(c.id) = 1 /\ c.id \in day0.marked
                /\ c.id \in day0.cacheFile \/ c.id \in day0.marked0 => SentTo(c.id) = 0

\* C18: with OVERPASS_ENABLED or OVERPASS_NAME_LOOKUP_ENABLED off, the name
\* lookup on Overpass gives None for every candidate it is asked about and
\* no request goes to Overpass for the candidate.
C18_FlagsOff ==
    ~(cfg.overpass_enabled /\ cfg.name_lookup) =>
        /\ \A i \in 1..Len(tried) : tried[i].resolver = "overpass" => tried[i].w = None
        /\ \A k \in 1..Len(reqs) : reqs[k] # "overpass"

\* the lookup was reached, with one flag off, for a candidate whose name does
\* not normalise to nothing
C18_Witness ==
    /\ cfg.overpass_enabled /\ ~cfg.name_lookup
    /\ norm_name(biz.business_name) # <<>>
    /\ \E i \in 1..Len(tried) : tried[i].resolver = "overpass"

\* ---------------------------------------------------------------------
\* Properties of the name lookup on Overpass (checked under SpecLookup)
\* ---------------------------------------------------------------------
\* the lookup has returned after a query that succeeded
Queried == lookup.pc = "done" /\ lookup.resp.ok /\ norm_name(lookup.name) # <<>>

WordSet(s) == LET w == Words(s) IN { w[k] : k \in 1..Len(w) }

\* the score as C19 states it, in tenths of a point, for the target name
\* `name` and an element at el.dist tenths of a kilometre
C19_Score(name, el) ==
    LET target == norm_name(name)
        match  == norm_name(el.name)
    IN  (IF match = target THEN 500
         ELSE IF IsSubstring(target, match) THEN 300
         ELSE 60 * Cardinality(WordSet(target) \cap WordSet(match)))
        + (IF el.dist >= 200 THEN 0 ELSE 200 - el.dist)
        + (IF etld1_from_url(normalize_url(el.w)) # "" THEN 50 ELSE 0)

\* C19: among the elements that declare a website the lookup selects the
\* first of those with the highest score, the score being 50 for equal
\* normalised names, else 30 when the target is a substring of the element's
\* normalised name, else 6 per shared word, plus max(0, 20 - km), plus 5 for
\* a website with a registrable domain; for the target "Ace Plumbing Ltd",
\* "Ace Plumbing" at 0.5 km is selected over "Best Plumbing" at 0.5 km.
C19_Selects ==
    Queried =>
        LET els  == lookup.resp.items
            with == { i \in 1..Len(els) : els[i].w # <<>> }
            sc   == [i \in 1..Len(els) |-> C19_Score(lookup.name, els[i])]
        IN  /\ with = {} => lookup.best = <<>>
            /\ with # {} =>
                  \E i \in with :
                     /\ lookup.best = els[i].w
                     /\ \A j \in with : sc[j] <= sc[i] /\ (sc[j] = sc[i] => i <= j)
            /\ (lookup.name = <<"Ace", SP, "Plumbing", SP, "Ltd">> /\ Len(els) = 2) =>
                  \A a, b \in 1..2 :
                     (/\ els[a].name = <<"Ace", SP, "Plumbing">> /\ els[a].dist = 5
                      /\ els[b].name = <<"Best", SP, "Plumbing">> /\ els[b].dist = 5
                      /\ els[a].w # <<>> /\ els[b].w # <<>>)
                     => lookup.best = els[a].w

\* "Best Plumbing" came first and "Ace Plumbing" second, both 0.5 km away
\* with a website, and the second was selected
C19_Witness ==
    /\ Queried
    /\ lookup.name = <<"Ace", SP, "Plumbing", SP, "Ltd">>
    /\ lookup.resp.items = << [name |-> <<"Best", SP, "Plumbing">>, w |-> <<"d2">>, dist |-> 5],
                              [name |-> <<"Ace", SP, "Plumbing">>, w |-> <<"d1">>, dist |-> 5] >>
    /\ lookup.best = <<"d1">>

\* C20: when the query succeeded and an element declares a website that
\* normalises to a valid absolute http or https URL, the lookup returns a
\* valid URL, not None.
C20_UsableFound ==
    Queried =>
        LET els == lookup.resp.items
        IN  (\E i \in 1..Len(els) :
                els[i].w # <<>> /\ normalize_url(els[i].w) # None
                                /\ ValidUrl(normalize_url(els[i].w)))
            => lookup.w # None /\ ValidUrl(lookup.w)

\* C21: the POI search starts only when no spatial query gave a candidate, at
\* every radius when Strategy A is enabled and with no query at all when it is
\* disabled; a spatial query that gave candidates is the last one issued, and
\* no POI query follows it.
C21_FallbackOnly ==
    LET gave == { k \in 1..Len(acq.answers) : Collected(acq.answers[k]) # <<>> }
    IN  /\ Len(acq.radii) <= Len(Radii)
        /\ ~acq.overpass_enabled => acq.radii = <<>>
        /\ \A k \in gave : k = Len(acq.answers) /\ k = Len(acq.radii)
        /\ gave # {} => acq.pc = "done" /\ acq.poi_items = <<>> /\ acq.cand_nominatim_poi = 0
        /\ acq.pc = "poi" =>
              /\ acq.poi_enabled /\ gave = {}
              /\ Len(acq.answers) = (IF acq.overpass_enabled THEN Len(Radii) ELSE 0)

\* Strategy A gave nothing at the three radii and the POI search gave a
\* candidate
C21_Witness ==
    /\ acq.pc = "done" /\ acq.overpass_enabled
    /\ Len(acq.answers) = Len(Radii)
    /\ acq.answers[1].ok /\ acq.answers[1].elements # <<>>
    /\ acq.cand_nominatim_poi > 0

\* C22: each radius queried for one area is strictly smaller than the radius
\* of the query before it.
C22_Decreasing ==
    \A k \in 2..Len(acq.radii) : acq.radii[k] < acq.radii[k - 1]

\* the key of the claim: lower-cased name with the registrable domain of the
\* tagged website, or the coordinates when there is no website
ClaimKey(r) ==
    <<Lower(r.business_name),
      IF r.website # None THEN etld1_from_url(r.website) ELSE r.pos>>

\* the first record of each key, in order
RECURSIVE Firsts(_, _)
Firsts(rows, keys) ==
    IF rows = <<>> THEN <<>>
    ELSE IF ClaimKey(Head(rows)) \in keys THEN Firsts(Tail(rows), keys)
         ELSE <<Head(rows)>> \o Firsts(Tail(rows), keys \cup {ClaimKey(Head(rows))})

\* the raw records of the POI answers: the named items that pass the class
\* and type filters
RECURSIVE PoiRaw(_)
PoiRaw(items) ==
    IF items = <<>> THEN <<>>
    ELSE IF ~PoiKept(Head(items)) THEN PoiRaw(Tail(items))
         ELSE <<[business_name |-> guess_name_from_nominatim(Head(items)),
                 website |-> PoiWebsite(Head(items)), wikidata |-> "",
                 pos |-> Head(items).pos]>> \o PoiRaw(Tail(items))

\* C23: the candidates of one acquisition result are the first raw record of
\* each key (lower-cased name, and registrable domain of the website or else
\* the coordinates), in some order, for the spatial query as for the POI search.
C23_DedupKey ==
    acq.pc = "done" =>
        IF acq.cand_overpass > 0
        THEN acq.cands \in Shuffles(Firsts(Rows(acq.answers[Len(acq.answers)].elements), {}))
        ELSE acq.cands \in Shuffles(Firsts(PoiRaw(acq.poi_items), {}))

\* the first check of the log made on the origin of check k
FirstCheck(k) ==
    CHOOSE f \in 1..k : /\ rb.log[f].origin = rb.log[k].origin
                        /\ \A g \in 1..(f - 1) : rb.log[g].origin # rb.log[k].origin

C25_PerEndpoint ==
    \A i, j \in 1..Len(thr.sent) :
        (/\ i < j
         /\ thr.sent[i].endpoint = thr.sent[j].endpoint
         /\ \A k \in (i + 1)..(j - 1) : thr.sent[k].endpoint # thr.sent[i].endpoint)
        => thr.sent[j].at - thr.sent[i].at >= thr.sent[j].interval

\* C26: a card chosen as the target of a push has no Company and no Website
\* value, on the label line or on its continuation line.
C26_OnlyBlankTargets ==
    \A e \in 1..Len(board.log) :
        board.log[e].card # 0 =>
            /\ extract_label_value(board.log[e].old, "Company") = <<>>
            /\ extract_label_value(board.log[e].old, "Website") = <<>>

\* C28: no two leads of a run are written to the same card: a written card
\* was blank when it was selected and is not blank after the write.
C28_OneLeadPerCard ==
    /\ \A i, j \in 1..Len(board.log) :
          (i < j /\ board.log[i].card # 0) => board.log[i].card # board.log[j].card
    /\ \A e \in 1..Len(board.log) :
          board.log[e].card # 0 =>
              /\ is_template_blank(board.log[e].old)
              /\ ~is_template_blank(board.log[e].new)

\* what C27 says of a running process: at most DAILY_LIMIT leads, no more
\* pushes than leads, and with the limit reached no candidate in resolution
\* or at the gate, none about to be taken, and no city about to be taken
LimitKept ==
    /\ Len(leads) <= cfg.daily_limit
    /\ pushIdx - 1 <= Len(leads)
    /\ (pc # "idle" /\ LimitReached) =>
          /\ pc \in {"cand", "cities", "push"}
          /\ pc = "cand" => ~ENABLED ResolveDirect
          /\ pc = "cities" => citiesLeft = 0

\* C27 (as stated): the limit is kept in every state of a run with
\* DAILY_LIMIT >= 0.
C27_LimitStops == cfg.daily_limit >= 0 => LimitKept

\* C27 (amended): the limit is kept in every state of a run with
\* DAILY_LIMIT >= 1; with DAILY_LIMIT = 0 no candidate is acquired or taken
\* and no lead is accepted or pushed, while cities are still taken.
C27_LimitKept ==
    /\ cfg.daily_limit >= 1 => LimitKept
    /\ cfg.daily_limit = 0 =>
          /\ leads = <<>> /\ processed = 0 /\ STATS["osm_candidates"] = 0
          /\ pc \in {"idle", "cities", "push"}

\* the limit is reached while the city still has a candidate
C27_Witness ==
    /\ cfg.daily_limit = 1 /\ Len(leads) = 1
    /\ pc = "cand" /\ cands # <<>>

\* C29: the emailer reads from a merged text the company and the website that
\* were written, and for First, Email, Hook and Variant the values of the
\* header block of the merged text.
C29_ReaderAgrees ==
    (nmerge >= 1 /\ company # <<>> /\ website # <<>>) =>
        LET p == parse_header(desc)
            h == Header(desc)
        IN  /\ p["Company"] = Strip(company)
            /\ p["Website"] = Strip(website)
            /\ \A lab \in PreservedLabels : p[lab] = ValueIn(h, lab)

\* C30: the row appended for a lead carries the city and the country in which
\* the lead's candidate was acquired.
C30_RowArea ==
    csv.pc = "done" =>
        /\ Len(csv.rows) = Len(csv.leads)
        /\ \A i \in 1..Len(csv.rows) :
              /\ csv.rows[i].company = csv.leads[i].Company
              /\ csv.rows[i].city = csv.areas[i].city
              /\ csv.rows[i].country = csv.areas[i].country

============================================================================
